---- MODULE Spec2Model ----
(***************************************************************************)
(* Seller-Frontend (SFE) SelectAd reactor of the Bidding and Auction       *)
(* services: services/seller_frontend_service/select_ad_reactor.{h,cc}     *)
(* with the CBOR AuctionResult encoder of util/web_utils.cc.               *)
(*                                                                         *)
(* One SelectAd RPC is modelled.  The reactor's handlers call one another  *)
(* synchronously, so every handler is an operator from a reactor state     *)
(* (the record State) to the reactor state it leaves behind; an action of  *)
(* the model is one entry of the outside world into the reactor (the       *)
(* gRPC server calling Execute, one step of the fan-out loop, one          *)
(* completion callback, the client cancelling) and applies the whole       *)
(* handler chain that entry runs.                                          *)
(***************************************************************************)
EXTENDS Integers, Sequences, FiniteSets, TLC

(* ------------------------------ bounds --------------------------------- *)
\* largest number of interest groups in the BuyerInput of buyer "a"
MaxIGs == 2
\* largest number of interest groups in the BuyerInput of any other buyer
MaxOtherIGs == 1

(* ------------------------- program constants --------------------------- *)
\* ErrorCode::CLIENT_SIDE, the code of every accumulated error
CLIENT_SIDE == 400

(* ------------------------------ domains -------------------------------- *)
\* buyer origins (interest-group owners)
Buyers == {"a", "b"}
\* interest-group names
IGNames == {"x", "y"}
\* bid values a buyer can return: zero (kept for debug reporting) or positive
BidValues == {0, 1}
NoBid == -1
\* this server's SELLER_ORIGIN_DOMAIN
SellerOriginDomain == "seller.com"
NoStatus == [code |-> "NONE", message |-> <<>>]

VARIABLES
    request,                  \* request_ and the payload of its ciphertext
    pc,                       \* where the RPC is
    cancelled,                \* context_->IsCancelled()
    error_accumulator_,       \* errors by visibility
    error_,                   \* AuctionResult::Error of the response
    buyer_inputs_,            \* decoded buyer inputs
    fetch_idx,                \* next entry of buyer_list the loop of Execute handles
    bfe,                      \* per buyer: the GetBids call and its outcome
    bid_stats_,               \* counters of BidStats
    shared_buyer_bids_map_,   \* buyer -> GetBidsRawResponse, in insertion order
    scoring_signals_,         \* key-value fetch result
    scoring,                  \* the ScoreAds call: times invoked, request sent
    response_,                \* SelectAdResponse
    status,                   \* the grpc::Status passed to Finish
    env,                      \* what the outside did: where the RPC was when the
                              \* client cancelled, how sealing the response
                              \* went, how the scoring-signals fetch ended
    get_bids,                 \* a GetBidsUnaryReactor of the BFE: its request,
                              \* members, calls in flight and final status
    decoder,                  \* a decoding of buyer inputs: the input, fail_fast,
                              \* the error accumulator and the joined message
    score_ads,                \* a ScoreAdsReactor of the Auction service
    debug_report,             \* a debug-reporting URL and what is put in it
    timeouts,                 \* the timeouts along one SelectAd call
    fan_out,                  \* the GetBids fan-out, one thread per callback
    lifetime,                 \* the reactor object and the callbacks that
                              \* may still run after Finish
    js_report,                \* one execution of the reporting entry function
    ad_metadata,              \* one call of BuildAdWithBidMetadata
    post_auction              \* one call of GeneratePostAuctionSignals

vars == <<request, pc, cancelled, error_accumulator_, error_, buyer_inputs_,
          fetch_idx, bfe, bid_stats_, shared_buyer_bids_map_, scoring_signals_,
          scoring, response_, status, env, get_bids, decoder, score_ads,
          debug_report, timeouts, fan_out, lifetime, js_report, ad_metadata,
          post_auction>>

(* ------------------------------ helpers -------------------------------- *)
Range(s) == {s[i] : i \in DOMAIN s}

SeqsUpTo(S, n) == UNION {[1..k -> S] : k \in 0..n}

\* interest-group lists of one BuyerInput; names are interchangeable, so
\* only lists that start with the first name are enumerated
IGLists(n) ==
    {[i \in DOMAIN l |-> [name |-> l[i]]] :
        l \in {m \in SeqsUpTo(IGNames, n) : m = <<>> \/ m[1] = "x"}}

\* the variables of the other services and of the finer-grained views
more_vars == <<lifetime, js_report, ad_metadata, post_auction>>

other_vars == <<score_ads, debug_report, timeouts, fan_out, more_vars>>

MaxIGsOf(buyer) == IF buyer = "a" THEN MaxIGs ELSE MaxOtherIGs

\* the mutable state of the reactor as one record
State ==
    [pc |-> pc, cancelled |-> cancelled,
     error_accumulator_ |-> error_accumulator_, error_ |-> error_,
     buyer_inputs_ |-> buyer_inputs_, fetch_idx |-> fetch_idx, bfe |-> bfe,
     bid_stats_ |-> bid_stats_,
     shared_buyer_bids_map_ |-> shared_buyer_bids_map_,
     scoring_signals_ |-> scoring_signals_, scoring |-> scoring,
     response_ |-> response_, status |-> status, env |-> env]

Becomes(s) ==
    /\ pc' = s.pc
    /\ cancelled' = s.cancelled
    /\ error_accumulator_' = s.error_accumulator_
    /\ error_' = s.error_
    /\ buyer_inputs_' = s.buyer_inputs_
    /\ fetch_idx' = s.fetch_idx
    /\ bfe' = s.bfe
    /\ bid_stats_' = s.bid_stats_
    /\ shared_buyer_bids_map_' = s.shared_buyer_bids_map_
    /\ scoring_signals_' = s.scoring_signals_
    /\ scoring' = s.scoring
    /\ response_' = s.response_
    /\ status' = s.status
    /\ env' = s.env
    /\ UNCHANGED <<request, get_bids, decoder, other_vars>>

(* ------------------------------ requests ------------------------------- *)
\* buyer -> BuyerInput.interest_groups, for a subset of the buyers
BuyerInputMaps ==
    UNION {{f \in [D -> IGLists(IF MaxIGs > MaxOtherIGs
                                THEN MaxIGs ELSE MaxOtherIGs)] :
               \A buyer \in D : Len(f[buyer]) <= MaxIGsOf(buyer)} :
           D \in SUBSET Buyers}

BuyerLists == {<<>>, <<"a">>, <<"a", "b">>}

\* a request whose ciphertext opens: the auction_config fields in the clear and
\* the decoded ProtectedAuctionInput
DecryptableRequests ==
    [ciphertext : {"ok"},
     seller_signals : {"", "s"},
     auction_signals : {"", "s"},
     seller : {SellerOriginDomain, "other.com"},
     buyer_list : BuyerLists,
     decode_errors : {<<>>, <<"kBadEncoding">>},
     generation_id : {"", "g"},
     publisher_name : {"", "p"},
     buyer_input : BuyerInputMaps]

\* ciphertexts whose key id parses and is known but that do not open, by the
\* stage of the decryption that rejects them
MalformedCiphertexts == {"malformed_encapsulation", "malformed_aead"}

\* the ways DecryptRequest fails: no ciphertext, unparsable key id, unknown
\* key, undecryptable ciphertext
UndecryptableRequests ==
    [ciphertext : {"empty", "bad_key_id", "no_private_key"}
                      \cup MalformedCiphertexts,
     seller_signals : {"s"}, auction_signals : {"s"},
     seller : {SellerOriginDomain}, buyer_list : {<<"a">>},
     decode_errors : {<<>>}, generation_id : {"g"}, publisher_name : {"p"},
     buyer_input : {[b \in {"a"} |-> <<[name |-> "x"]>>]}]

Requests == DecryptableRequests \cup UndecryptableRequests

(* ------------------------------ Finish --------------------------------- *)
\* grpc::ServerUnaryReactor::Finish: the RPC ends with this status; a
\* message is the sequence of the strings it is made of
Finish(s, code, message) ==
    [s EXCEPT !.pc = "Done",
              !.status = [code |-> code, message |-> message],
              !.env.finishes = @ + 1]

FinishWithOkStatus(s) == Finish(s, "OK", <<>>)

FinishWithInternalError(s) == Finish(s, "INTERNAL", <<"kInternalServerError">>)

FinishWithAborted(s) == Finish(s, "ABORTED", <<"kRequestCancelled">>)

(* ------------------------- error accumulator --------------------------- *)
ReportError(s, visibility, msg) ==
    [s EXCEPT !.error_accumulator_[visibility] = Append(@, msg)]

HaveClientVisibleErrors(s) == s.error_accumulator_.CLIENT_VISIBLE # <<>>

HaveAdServerVisibleErrors(s) == s.error_accumulator_.AD_SERVER_VISIBLE # <<>>

HasErrors(s) == HaveClientVisibleErrors(s) \/ HaveAdServerVisibleErrors(s)

\* the messages of one visibility joined by kErrorDelimiter: the sequence of
\* its messages stands for the joined string
GetAccumulatedErrorString(s, visibility) == s.error_accumulator_[visibility]

MayPopulateClientVisibleErrors(s) ==
    IF ~HaveClientVisibleErrors(s) THEN s
    ELSE [s EXCEPT !.error_ =
            [code |-> CLIENT_SIDE,
             message |-> GetAccumulatedErrorString(s, "CLIENT_VISIBLE")]]

(* ----------------------- buyer bids and responses ---------------------- *)
\* what a buyer's bidding produced for each interest group of its BuyerInput:
\* no bid, or a bid value
IGBids(igs) == [1..Len(igs) -> {NoBid} \cup BidValues]

RECURSIVE BidsOf(_, _, _)
\* GetBidsRawResponse.bids: one AdWithBid, named after its interest group, for
\* every interest group that produced a bid, in interest-group order
BidsOf(igs, ig_bid, i) ==
    IF i > Len(igs) THEN <<>>
    ELSE (IF ig_bid[i] = NoBid THEN <<>>
          ELSE <<[interest_group_name |-> igs[i].name, bid |-> ig_bid[i]]>>)
         \o BidsOf(igs, ig_bid, i + 1)

\* outcomes of one GetBids call that was started: a failure status, or a
\* response
BfeOutcomes(igs) ==
    [ok : {FALSE}, ig_bid : {[i \in 1..Len(igs) |-> NoBid]}]
    \cup [ok : {TRUE}, ig_bid : IGBids(igs)]

NoCall == [call |-> "none", ok |-> FALSE, ig_bid |-> <<>>]

(* --------------------------- buyer bids map ---------------------------- *)
MapKeys(m) == {m[i].buyer : i \in DOMAIN m}

MapAt(m, buyer) == (CHOOSE i \in DOMAIN m : m[i].buyer = buyer)

\* an insertion that drops the responses that arrived earlier
TryEmplace_Overwrite(m, buyer, bids) ==
    <<[buyer |-> buyer, bids |-> bids]>>

\* shared_buyer_bids_map_.try_emplace(buyer, response)
TryEmplace(m, buyer, bids) ==
    IF buyer \in MapKeys(m) THEN m
    ELSE Append(m, [buyer |-> buyer, bids |-> bids])

(* --------------------------- GetBiddingGroups -------------------------- *)
RECURSIVE IndexOfGroups(_, _, _)
\* the indices (from 0) of the interest groups whose name is among names
IndexOfGroups(igs, names, i) ==
    IF i > Len(igs) THEN <<>>
    ELSE (IF igs[i].name \in names THEN <<i - 1>> ELSE <<>>)
         \o IndexOfGroups(igs, names, i + 1)

\* names of the interest groups associated with non-zero bids
BuyerInterestGroups(bids) ==
    {bids[i].interest_group_name : i \in {j \in DOMAIN bids : bids[j].bid > 0}}

GetBiddingGroups(s) ==
    [buyer \in MapKeys(s.shared_buyer_bids_map_) |->
        IndexOfGroups(s.buyer_inputs_[buyer],
                      BuyerInterestGroups(
                          s.shared_buyer_bids_map_[
                              MapAt(s.shared_buyer_bids_map_, buyer)].bids),
                      1)]

(* -------------------------------- Encode ------------------------------- *)
\* CborSerializeScoreAdResponse: the keys of a winner
CborSerializeScoreAdResponse(ad_score, bidding_group_map) ==
    [bid |-> ad_score.buyer_bid,
     score |-> ad_score.desirability,
     isChaff |-> FALSE,
     components |-> <<>>,
     adRenderURL |-> ad_score.render,
     biddingGroups |-> bidding_group_map,
     winReportingURLs |-> <<>>,
     interestGroupName |-> ad_score.interest_group_name,
     interestGroupOwner |-> ad_score.interest_group_owner]

\* CborSerializeError
CborSerializeError(error) ==
    [error |-> [code |-> error.code, message |-> error.message]]

\* Encode writing the chaff bit next to the error
Encode_ErrorAndChaff(high_score, bidding_group_map, error) ==
    IF error # <<>>
    THEN [error |-> [code |-> error[1].code, message |-> error[1].message],
          isChaff |-> TRUE]
    ELSE IF high_score # <<>>
         THEN CborSerializeScoreAdResponse(high_score[1], bidding_group_map)
         ELSE [isChaff |-> TRUE]

\* the CBOR map of the AuctionResult: the record's fields are the keys written
Encode(high_score, bidding_group_map, error) ==
    IF error # <<>> THEN CborSerializeError(error[1])
    ELSE IF high_score # <<>>
         THEN CborSerializeScoreAdResponse(high_score[1], bidding_group_map)
         ELSE [isChaff |-> TRUE]

\* bytes of the frame header: 1 byte of version and compression, 4 bytes of
\* payload length
kFramingOverhead == 5
\* floor of the size of a framed response
kMinAuctionResultBytes == 256

RECURSIVE BitCeil(_, _)
\* the smallest power of two that is >= n, searched from the power p
BitCeil(n, p) == IF p >= n THEN p ELSE BitCeil(n, 2 * p)

RECURSIVE SumOfLens(_, _)
\* number of indices held by a bidding-group map over the owners in D
SumOfLens(m, D) ==
    IF D = {} THEN 0
    ELSE LET o == CHOOSE x \in D : TRUE
         IN  Len(m[o]) + SumOfLens(m, D \ {o})

\* byte count of the compressed encoding of an AuctionResult; it grows with
\* what the result holds: a chaff is the shortest, an error grows with its
\* message, a winner with its bidding groups
GzipCompressedSize(payload) ==
    IF "error" \in DOMAIN payload
    THEN 40 + 30 * Len(payload.error.message)
    ELSE IF "biddingGroups" \in DOMAIN payload
         THEN 180 + 20 * Cardinality(DOMAIN payload.biddingGroups)
                  + 40 * SumOfLens(payload.biddingGroups,
                                   DOMAIN payload.biddingGroups)
         ELSE 30

\* a frame that is as long as its header and payload, without padding
GetEncodedDataSize_Unpadded(encapsulated_payload_size) ==
    kFramingOverhead + encapsulated_payload_size

\* size of the framed response: header and payload, rounded up to a power of
\* two, at least the floor
GetEncodedDataSize(encapsulated_payload_size) ==
    LET rounded == BitCeil(kFramingOverhead + encapsulated_payload_size, 1)
    IN  IF rounded > kMinAuctionResultBytes
        THEN rounded ELSE kMinAuctionResultBytes

\* the browser reactor's response plaintext: the encoded AuctionResult,
\* compressed, framed and padded
GetNonEncryptedResponse(high_score, bidding_group_map, error) ==
    LET payload == Encode(high_score, bidding_group_map, error)
    IN  [compression |-> "gzip",
         padded |-> TRUE,
         size |-> GetEncodedDataSize(GzipCompressedSize(payload)),
         payload |-> payload]

(* ---------------------------- EncryptResponse -------------------------- *)
\* outcomes of sealing the response: sealed, the private key is no longer in
\* the key cache, or encapsulation fails
EncryptOutcomes == {"ok", "no_key", "seal_error"}

\* outcomes of building the plaintext that end before sealing: a CBOR item
\* cannot be added or serialized, which Encode reports to its error handler,
\* or cbor_build_float fails, which CborSerializeFloat passes up unreported
EncodeFailures == {"cbor_error", "cbor_build_float_error"}

\* how building and sealing the response can go
ResponseOutcomes == EncryptOutcomes \cup EncodeFailures

\* <<state, whether encryption succeeded>>
\* an EncryptResponse that reports success after it finished the RPC
EncryptResponse_FinishAndContinue(s, plaintext_response, enc) ==
    LET t == [s EXCEPT !.env.encrypt = enc]
    IN  IF enc \in {"no_key", "seal_error"} THEN
            <<Finish(t, "INTERNAL", <<"kInternalServerError">>), TRUE>>
        ELSE
            <<[t EXCEPT !.response_ =
                  [auction_result_ciphertext |-> <<plaintext_response>>]],
              TRUE>>

EncryptResponse(s, plaintext_response, enc) ==
    LET t == [s EXCEPT !.env.encrypt = enc]
    IN  IF enc = "no_key" THEN
            <<Finish(t, "INTERNAL", <<"kInternalServerError">>), FALSE>>
        ELSE IF enc = "seal_error" THEN
            <<Finish(t, "INTERNAL", <<"kInternalServerError">>), FALSE>>
        ELSE
            <<[t EXCEPT !.response_ =
                  [auction_result_ciphertext |-> <<plaintext_response>>]],
              TRUE>>

(* ----------------------------- OnScoreAdsDone -------------------------- *)
\* responses of the Auction service's ScoreAds to a request: a failure status
\* of some code, no winner, or the score of one of the bids sent
ScoreAdsFailureCodes == {"UNAVAILABLE"}

AdScoreOf(ad) ==
    [buyer_bid |-> ad.bid, desirability |-> 2, render |-> "r",
     interest_group_name |-> ad.interest_group_name,
     interest_group_owner |-> ad.interest_group_owner]

EmptyScoreAdsRawResponse == [ok |-> TRUE, code |-> "OK", ad_score |-> <<>>]

ScoreAdsResponses(raw_request) ==
    {[ok |-> FALSE, code |-> c, ad_score |-> <<>>] : c \in ScoreAdsFailureCodes}
    \cup {EmptyScoreAdsRawResponse}
    \cup {[ok |-> TRUE, code |-> "OK", ad_score |-> <<AdScoreOf(ad)>>] :
            ad \in Range(raw_request.ad_bids)}

\* OnScoreAdsDone finishing with a plain status for client-visible errors too
OnScoreAdsDone_PlainClientErrors(s, response, enc) ==
    IF HasErrors(s) THEN
        Finish(s, "INVALID_ARGUMENT",
               GetAccumulatedErrorString(s, "AD_SERVER_VISIBLE")
               \o GetAccumulatedErrorString(s, "CLIENT_VISIBLE"))
    ELSE IF ~response.ok THEN
        Finish(s, response.code, <<"ScoreAdsStatusMessage">>)
    ELSE
        LET high_score ==
                IF response.ad_score # <<>> /\ response.ad_score[1].buyer_bid > 0
                THEN response.ad_score ELSE <<>>
            bidding_group_map == GetBiddingGroups(s)
            error == IF HaveClientVisibleErrors(s) THEN <<s.error_>> ELSE <<>>
            plaintext_response ==
                GetNonEncryptedResponse(high_score, bidding_group_map, error)
            encrypted == EncryptResponse(s, plaintext_response, enc)
        IN  IF ~encrypted[2] THEN encrypted[1]
            ELSE FinishWithOkStatus(encrypted[1])

\* OnScoreAdsDone taking a score with a zero bid for a winner
OnScoreAdsDone_ZeroBidWins(s, response, enc) ==
    IF HaveAdServerVisibleErrors(s) THEN
        Finish(s, "INVALID_ARGUMENT",
               GetAccumulatedErrorString(s, "AD_SERVER_VISIBLE"))
    ELSE IF ~response.ok THEN
        Finish(s, response.code, <<"ScoreAdsStatusMessage">>)
    ELSE
        LET high_score ==
                IF response.ad_score # <<>> /\ response.ad_score[1].buyer_bid >= 0
                THEN response.ad_score ELSE <<>>
            bidding_group_map == GetBiddingGroups(s)
            error == IF HaveClientVisibleErrors(s) THEN <<s.error_>> ELSE <<>>
            plaintext_response ==
                GetNonEncryptedResponse(high_score, bidding_group_map, error)
            encrypted == EncryptResponse(s, plaintext_response, enc)
        IN  IF ~encrypted[2] THEN encrypted[1]
            ELSE FinishWithOkStatus(encrypted[1])

OnScoreAdsDone(s, response, enc) ==
    IF HaveAdServerVisibleErrors(s) THEN
        Finish(s, "INVALID_ARGUMENT",
               GetAccumulatedErrorString(s, "AD_SERVER_VISIBLE"))
    ELSE IF ~response.ok THEN
        Finish(s, response.code, <<"ScoreAdsStatusMessage">>)
    ELSE
        LET high_score ==
                IF response.ad_score # <<>> /\ response.ad_score[1].buyer_bid > 0
                THEN response.ad_score ELSE <<>>
            bidding_group_map == GetBiddingGroups(s)
            error == IF HaveClientVisibleErrors(s) THEN <<s.error_>> ELSE <<>>
            plaintext_response ==
                GetNonEncryptedResponse(high_score, bidding_group_map, error)
            \* a bid and a score are written for a winner only
            writes_floats == error = <<>> /\ high_score # <<>>
            encrypted ==
                EncryptResponse([s EXCEPT !.env.encode = "ok"],
                                plaintext_response,
                                IF enc \in EncodeFailures THEN "ok" ELSE enc)
        IN  IF enc = "cbor_error" THEN
                \* the error handler of Encode finishes the RPC
                FinishWithInternalError([s EXCEPT !.env.encode = "reported"])
            ELSE IF enc = "cbor_build_float_error" /\ writes_floats THEN
                \* non_encrypted_response is not OK: return
                [s EXCEPT !.env.encode = "unreported", !.pc = "Returned"]
            ELSE IF ~encrypted[2] THEN encrypted[1]
            ELSE FinishWithOkStatus(encrypted[1])

(* -------------------------------- ScoreAds ----------------------------- *)
\* the owner read from the client's payload: a key of its buyer-input map
BuildAdWithBidMetadata_OwnerFromPayload(input, interest_group_owner) ==
    [bid |-> input.bid,
     interest_group_name |-> input.interest_group_name,
     interest_group_owner |->
         CHOOSE b \in DOMAIN request.buyer_input : TRUE]

BuildAdWithBidMetadata(input, interest_group_owner) ==
    [bid |-> input.bid,
     interest_group_name |-> input.interest_group_name,
     interest_group_owner |-> interest_group_owner]

\* a request built from the first buyer of the map only
AdBidsOf_FirstBuyerOnly(m, k) ==
    IF k > Len(m) THEN <<>>
    ELSE [i \in DOMAIN m[k].bids |->
            BuildAdWithBidMetadata(m[k].bids[i], m[k].buyer)]

RECURSIVE AdBidsOf(_, _)
\* the bids of every response of the map, each with its buyer as owner
AdBidsOf(m, k) ==
    IF k > Len(m) THEN <<>>
    ELSE [i \in DOMAIN m[k].bids |->
            BuildAdWithBidMetadata(m[k].bids[i], m[k].buyer)]
         \o AdBidsOf(m, k + 1)

CreateScoreAdsRequest(s) ==
    [ad_bids |-> AdBidsOf(s.shared_buyer_bids_map_, 1),
     auction_signals |-> request.auction_signals,
     seller_signals |-> request.seller_signals,
     scoring_signals |-> IF s.scoring_signals_ # "null"
                         THEN s.scoring_signals_ ELSE "",
     publisher_hostname |-> request.publisher_name]

\* execute_ok: whether clients_.scoring.ExecuteInternal started the call
ScoreAds(s, execute_ok) ==
    LET raw_request == CreateScoreAdsRequest(s)
        called == [s EXCEPT !.scoring = [calls |-> @.calls + 1,
                                         request |-> <<raw_request>>,
                                         response |-> <<>>],
                            !.pc = "AwaitScoreAds"]
    IN  IF ~execute_ok
        THEN Finish(called, "INTERNAL", <<"kInternalServerError">>)
        ELSE called

\* a failed fetch ending the RPC instead of going on to ScoreAds
OnFetchScoringSignalsDone_FailFast(s, result_ok, execute_ok) ==
    IF result_ok
    THEN ScoreAds([s EXCEPT !.scoring_signals_ = "signals"], execute_ok)
    ELSE FinishWithInternalError(s)

OnFetchScoringSignalsDone(s, result_ok, execute_ok) ==
    ScoreAds(IF result_ok THEN [s EXCEPT !.scoring_signals_ = "signals"] ELSE s,
             execute_ok)

FetchScoringSignals(s) == [s EXCEPT !.pc = "AwaitScoringSignals"]

(* ------------------------------ collation ------------------------------ *)
\* OnAllBidsDone returning without finishing the RPC when every buyer failed
OnAllBidsDone_NoFinish(s, any_successful_bids, enc) ==
    IF s.cancelled THEN FinishWithAborted(s)
    ELSE IF s.shared_buyer_bids_map_ = <<>> THEN
        IF ~any_successful_bids THEN s
        ELSE OnScoreAdsDone(s, EmptyScoreAdsRawResponse, enc)
    ELSE FetchScoringSignals(s)

\* OnAllBidsDone sending chaff whenever no bids were received
OnAllBidsDone_AlwaysChaff(s, any_successful_bids, enc) ==
    IF s.cancelled THEN FinishWithAborted(s)
    ELSE IF s.shared_buyer_bids_map_ = <<>> THEN
        OnScoreAdsDone(s, EmptyScoreAdsRawResponse, enc)
    ELSE FetchScoringSignals(s)

\* OnAllBidsDone failing the auction as soon as one buyer failed
OnAllBidsDone_FailOnAnyError(s, any_successful_bids, enc) ==
    IF s.cancelled THEN FinishWithAborted(s)
    ELSE IF s.bid_stats_.error > 0 THEN FinishWithInternalError(s)
    ELSE IF s.shared_buyer_bids_map_ = <<>> THEN
        OnScoreAdsDone(s, EmptyScoreAdsRawResponse, enc)
    ELSE FetchScoringSignals(s)

\* an OnAllBidsDone that starts ScoreAds without the scoring signals
OnAllBidsDone_SkipSignals(s, any_successful_bids, enc) ==
    IF s.cancelled THEN FinishWithAborted(s)
    ELSE IF s.shared_buyer_bids_map_ = <<>> THEN
        IF ~any_successful_bids THEN FinishWithInternalError(s)
        ELSE OnScoreAdsDone(s, EmptyScoreAdsRawResponse, enc)
    ELSE ScoreAds(s, TRUE)

OnAllBidsDone(s, any_successful_bids, enc) ==
    IF s.cancelled THEN FinishWithAborted(s)
    ELSE IF s.shared_buyer_bids_map_ = <<>> THEN
        IF ~any_successful_bids THEN FinishWithInternalError(s)
        ELSE OnScoreAdsDone(s, EmptyScoreAdsRawResponse, enc)
    ELSE FetchScoringSignals(s)

\* BidStats: no bid counts as successful only when every buyer of a non-empty
\* buyer list ended in the error state
HasAnySuccessfulBids(stats) ==
    \/ stats.initial = 0
    \/ stats.successful > 0
    \/ stats.empty > 0
    \/ stats.skipped > 0

\* a counter that calls on_all_bids_done while one bid is still pending
BidCompleted_OnePending(s, completed_bid_state, enc) ==
    LET stats == [s.bid_stats_ EXCEPT
                    !.pending = @ - 1,
                    !.skipped = IF completed_bid_state = "SKIPPED"
                                THEN @ + 1 ELSE @,
                    !.empty = IF completed_bid_state = "EMPTY_RESPONSE"
                              THEN @ + 1 ELSE @,
                    !.error = IF completed_bid_state = "ERROR"
                              THEN @ + 1 ELSE @,
                    !.successful = IF completed_bid_state = "SUCCESS"
                                   THEN @ + 1 ELSE @]
        t == [s EXCEPT !.bid_stats_ = stats, !.env.bid_completed = @ + 1]
    IN  IF stats.pending <= 1
        THEN OnAllBidsDone(
                 [t EXCEPT !.env.all_bids_done = @ + 1,
                           !.env.reports_at_collation =
                               IF t.env.all_bids_done = 0
                               THEN t.env.bid_completed ELSE @],
                 HasAnySuccessfulBids(stats), enc)
        ELSE t

\* BidStats::BidCompleted; s already holds the effect of the single-bid
\* callback, which runs first under the lock
BidCompleted(s, completed_bid_state, enc) ==
    LET stats == [s.bid_stats_ EXCEPT
                    !.pending = @ - 1,
                    !.skipped = IF completed_bid_state = "SKIPPED"
                                THEN @ + 1 ELSE @,
                    !.empty = IF completed_bid_state = "EMPTY_RESPONSE"
                              THEN @ + 1 ELSE @,
                    !.error = IF completed_bid_state = "ERROR"
                              THEN @ + 1 ELSE @,
                    !.successful = IF completed_bid_state = "SUCCESS"
                                   THEN @ + 1 ELSE @]
        t == [s EXCEPT !.bid_stats_ = stats, !.env.bid_completed = @ + 1]
    IN  IF stats.pending = 0
        THEN OnAllBidsDone(
                 [t EXCEPT !.env.all_bids_done = @ + 1,
                           !.env.reports_at_collation =
                               IF t.env.all_bids_done = 0
                               THEN t.env.bid_completed ELSE @],
                 HasAnySuccessfulBids(stats), enc)
        ELSE t

InitialBidStats(initial_bids_count) ==
    [initial |-> initial_bids_count, pending |-> initial_bids_count,
     successful |-> 0, empty |-> 0, skipped |-> 0, error |-> 0]

(* ------------------------------- fan-out ------------------------------- *)
\* response: [ok, bids], the status or GetBidsRawResponse the BFE client hands
\* to the callback
OnFetchBidsDone(s, response, buyer_ig_owner, enc) ==
    IF response.ok THEN
        IF response.bids = <<>>
        THEN BidCompleted(s, "EMPTY_RESPONSE", enc)
        ELSE BidCompleted(
                 [s EXCEPT !.shared_buyer_bids_map_ =
                     TryEmplace(@, buyer_ig_owner, response.bids)],
                 "SUCCESS", enc)
    ELSE BidCompleted(s, "ERROR", enc)

\* how a GetBids call can go: no stub for the buyer, the call cannot be
\* started, or it is started and will complete with an outcome
FetchBidOutcomes(igs) ==
    {[call |-> "no_client", ok |-> FALSE, ig_bid |-> <<>>],
     [call |-> "execute_failed", ok |-> FALSE, ig_bid |-> <<>>]}
    \cup {[call |-> "inflight", ok |-> o.ok, ig_bid |-> o.ig_bid] :
            o \in BfeOutcomes(igs)}

FetchBid(s, buyer_ig_owner, outcome, enc) ==
    LET t == [s EXCEPT !.bfe[buyer_ig_owner] = outcome]
    IN  IF outcome.call = "no_client" THEN BidCompleted(t, "SKIPPED", enc)
        ELSE IF outcome.call = "execute_failed"
             THEN BidCompleted(t, "ERROR", enc)
             ELSE t

(* -------------------------------- Execute ------------------------------ *)
\* <<state, whether decryption succeeded>>; on success the decoded payload's
\* defects are in the error accumulator and the buyer inputs are decoded
\* the status of server_common::DecryptEncapsulatedRequest: its message
\* tells which stage of the decryption failed
DecryptEncapsulatedRequest(encapsulated_req) ==
    IF encapsulated_req = "malformed_encapsulation"
    THEN [ok |-> FALSE, message |-> "hpke_setup_failed"]
    ELSE IF encapsulated_req = "malformed_aead"
         THEN [ok |-> FALSE, message |-> "aead_open_failed"]
         ELSE [ok |-> TRUE, message |-> ""]

\* a decryption failure reported to the client as a decoding error, inside the
\* response
DecryptRequest_ClientVisibleError(s) ==
    IF request.ciphertext # "ok"
    THEN <<ReportError(s, "CLIENT_VISIBLE", "kDecryptFailed"), TRUE>>
    ELSE <<[s EXCEPT !.error_accumulator_.CLIENT_VISIBLE =
                        @ \o request.decode_errors,
                    !.buyer_inputs_ = request.buyer_input], TRUE>>

DecryptRequest(s) ==
    IF request.ciphertext = "empty" THEN
        <<Finish(s, "INVALID_ARGUMENT", <<"kEmptyProtectedAuctionCiphertextError">>),
          FALSE>>
    ELSE IF request.ciphertext = "bad_key_id" THEN
        <<Finish(s, "INVALID_ARGUMENT", <<"kInvalidOhttpKeyIdError">>), FALSE>>
    ELSE IF request.ciphertext = "no_private_key" THEN
        <<Finish(s, "INVALID_ARGUMENT", <<"kMissingPrivateKey">>), FALSE>>
    ELSE IF ~DecryptEncapsulatedRequest(request.ciphertext).ok THEN
        <<Finish(s, "INVALID_ARGUMENT",
                 <<"kMalformedEncapsulatedRequest",
                   DecryptEncapsulatedRequest(request.ciphertext).message>>),
          FALSE>>
    ELSE
        <<[s EXCEPT !.error_accumulator_.CLIENT_VISIBLE =
                        @ \o request.decode_errors,
                    !.buyer_inputs_ = request.buyer_input], TRUE>>

\* the checks of the auction config without the one of the seller domain
MayPopulateAdServerVisibleErrors_NoSellerCheck(s) ==
    LET s1 == IF request.seller_signals = ""
              THEN ReportError(s, "AD_SERVER_VISIBLE", "kEmptySellerSignals")
              ELSE s
        s2 == IF request.auction_signals = ""
              THEN ReportError(s1, "AD_SERVER_VISIBLE", "kEmptyAuctionSignals")
              ELSE s1
    IN  IF request.buyer_list = <<>>
        THEN ReportError(s2, "AD_SERVER_VISIBLE", "kEmptyBuyerList")
        ELSE s2

MayPopulateAdServerVisibleErrors(s) ==
    LET s1 == IF request.seller_signals = ""
              THEN ReportError(s, "AD_SERVER_VISIBLE", "kEmptySellerSignals")
              ELSE s
        s2 == IF request.auction_signals = ""
              THEN ReportError(s1, "AD_SERVER_VISIBLE", "kEmptyAuctionSignals")
              ELSE s1
        s3 == IF request.buyer_list = <<>>
              THEN ReportError(s2, "AD_SERVER_VISIBLE", "kEmptyBuyerList")
              ELSE s2
        s4 == IF request.seller = ""
              THEN ReportError(s3, "AD_SERVER_VISIBLE", "kEmptySeller")
              ELSE s3
    IN  IF SellerOriginDomain # request.seller
        THEN ReportError(s4, "AD_SERVER_VISIBLE", "kWrongSellerDomain")
        ELSE s4

\* a validation that stops at the first missing field
ValidateProtectedAuctionInput_FirstOnly(s) ==
    IF request.generation_id = ""
    THEN ReportError(s, "CLIENT_VISIBLE", "kMissingGenerationId")
    ELSE IF request.publisher_name = ""
    THEN ReportError(s, "CLIENT_VISIBLE", "kMissingPublisherName")
    ELSE s

ValidateProtectedAuctionInput(s) ==
    LET s1 == IF request.generation_id = ""
              THEN ReportError(s, "CLIENT_VISIBLE", "kMissingGenerationId")
              ELSE s
        s2 == IF request.publisher_name = ""
              THEN ReportError(s1, "CLIENT_VISIBLE", "kMissingPublisherName")
              ELSE s1
        is_any_buyer_input_valid ==
            \E buyer \in DOMAIN s.buyer_inputs_ :
                buyer # "" /\ s.buyer_inputs_[buyer] # <<>>
    IN  IF DOMAIN s.buyer_inputs_ = {}
        THEN ReportError(s2, "CLIENT_VISIBLE", "kMissingBuyerInputs")
        ELSE IF ~is_any_buyer_input_valid
             THEN ReportError(s2, "CLIENT_VISIBLE",
                              "kNonEmptyBuyerInputMalformed")
             ELSE s2

\* Execute up to the loop over buyer_list
Execute(s, enc) ==
    LET decrypted == DecryptRequest(s)
        a == MayPopulateAdServerVisibleErrors(decrypted[1])
        v == IF ~HaveClientVisibleErrors(a)
             THEN ValidateProtectedAuctionInput(a) ELSE a
        p == MayPopulateClientVisibleErrors(v)
    IN  IF ~decrypted[2] THEN decrypted[1]
        ELSE IF HaveAdServerVisibleErrors(a)
             THEN OnScoreAdsDone(a, EmptyScoreAdsRawResponse, enc)
             ELSE IF HasErrors(p)
                  THEN OnScoreAdsDone(p, EmptyScoreAdsRawResponse, enc)
                  ELSE [p EXCEPT !.pc = "FanOut", !.fetch_idx = 1]

\* one iteration of the loop of Execute over buyer_list
ExecuteLoop(s, outcome, enc) ==
    LET buyer_ig_owner == request.buyer_list[s.fetch_idx]
        t == [s EXCEPT !.fetch_idx = @ + 1]
    IN  IF buyer_ig_owner \in DOMAIN s.buyer_inputs_
        THEN FetchBid(t, buyer_ig_owner, outcome, enc)
        ELSE BidCompleted(t, "SKIPPED", enc)

(* ================== BFE: GetBidsUnaryReactor ========================= *)
\* key ids the BFE's key fetcher holds a private key for
BfeKnownKeyIds == {"k1"}

\* GetBidsRequest: key id, ciphertext and, for a ciphertext that opens and
\* parses, the GetBidsRawRequest inside
GetBidsRequests ==
    [key_id : {"", "k1", "k9"},
     request_ciphertext : {"", "ok", "undecryptable", "unparsable"},
     buyer_input : IGLists(MaxIGs)]

\* answers of the bidding-signals key-value provider
BiddingSignalsResponses ==
    {[ok |-> TRUE, code |-> "OK", bidding_signals |-> "signals"]}
    \cup [ok : {FALSE}, code : {"UNAVAILABLE", "DEADLINE_EXCEEDED"},
          bidding_signals : {""}]

\* answers of the Bidding service to GenerateBids
GenerateBidsResponses(igs) ==
    [ok : {FALSE}, code : {"UNAVAILABLE", "DEADLINE_EXCEEDED"},
     ig_bid : {[i \in 1..Len(igs) |-> NoBid]}]
    \cup [ok : {TRUE}, code : {"OK"}, ig_bid : IGBids(igs)]

\* a call of the reactor: where it is, how often it was made, what was sent
\* and what its callback was handed
NoBfeCall ==
    [state |-> "none", calls |-> 0, request |-> <<>>, response |-> <<>>]

\* the reactor after construction, for a request
GetBidsUnaryReactor(req) ==
    [request_ |-> req,
     pc |-> "New",
     cancelled |-> FALSE,
     cancel_pc |-> "",
     raw_request_ |-> <<>>,
     hpke_secret_ |-> "",
     kv |-> NoBfeCall,
     bidding |-> NoBfeCall,
     get_bids_raw_response_ |-> <<>>,
     get_bids_response_ |-> [response_ciphertext |-> <<>>],
     status |-> NoStatus,
     finishes |-> 0]

Bfe_Finish(g, code, message) ==
    [g EXCEPT !.pc = "Done", !.status = [code |-> code, message |-> message],
              !.finishes = @ + 1]

Bfe_FinishWithOkStatus(g) == Bfe_Finish(g, "OK", <<>>)

\* <<reactor, whether decryption succeeded>>
Bfe_DecryptRequest(g) ==
    IF g.request_.key_id = "" THEN
        <<Bfe_Finish(g, "INVALID_ARGUMENT", <<"kEmptyKeyIdError">>), FALSE>>
    ELSE IF g.request_.request_ciphertext = "" THEN
        <<Bfe_Finish(g, "INVALID_ARGUMENT", <<"kEmptyCiphertextError">>), FALSE>>
    ELSE IF g.request_.key_id \notin BfeKnownKeyIds THEN
        <<Bfe_Finish(g, "INVALID_ARGUMENT", <<"kInvalidKeyIdError">>), FALSE>>
    ELSE IF g.request_.request_ciphertext = "undecryptable" THEN
        <<Bfe_Finish(g, "INVALID_ARGUMENT", <<"kMalformedCiphertext">>), FALSE>>
    ELSE IF g.request_.request_ciphertext = "unparsable" THEN
        <<Bfe_Finish([g EXCEPT !.hpke_secret_ = "secret"],
                     "INVALID_ARGUMENT", <<"kMalformedCiphertext">>), FALSE>>
    ELSE
        <<[g EXCEPT !.hpke_secret_ = "secret",
                    !.raw_request_ =
                        <<[buyer_input |-> g.request_.buyer_input]>>],
          TRUE>>

\* a GetProtectedAudienceBids that starts GenerateBids beside the fetch
GetProtectedAudienceBids_Concurrent(g) ==
    [g EXCEPT !.kv = [state |-> "inflight", calls |-> 1,
                      request |-> g.raw_request_, response |-> <<>>],
              !.bidding = [state |-> "inflight", calls |-> 1,
                           request |-> <<[buyer_input |->
                                              g.raw_request_[1].buyer_input,
                                          bidding_signals |-> ""]>>,
                           response |-> <<>>],
              !.pc = "AwaitBiddingSignals"]

\* the key-value fetch for the bidding signals is started
GetProtectedAudienceBids(g) ==
    [g EXCEPT !.kv = [state |-> "inflight", calls |-> 1,
                      request |-> g.raw_request_, response |-> <<>>],
              !.pc = "AwaitBiddingSignals"]

Bfe_Execute(g) ==
    LET decrypted == Bfe_DecryptRequest(g)
    IN  IF ~decrypted[2] THEN decrypted[1]
        ELSE GetProtectedAudienceBids(decrypted[1])

\* execute_ok: whether bidding_async_client_->ExecuteInternal started the call
PrepareAndGenerateProtectedAudienceBid(g, bidding_signals, execute_ok) ==
    LET raw_bidding_input ==
            [buyer_input |-> g.raw_request_[1].buyer_input,
             bidding_signals |-> bidding_signals]
        called == [g EXCEPT !.bidding =
                                [state |-> IF execute_ok THEN "inflight"
                                           ELSE "not_started",
                                 calls |-> @.calls + 1,
                                 request |-> <<raw_bidding_input>>,
                                 response |-> <<>>],
                            !.pc = "AwaitGenerateBids"]
    IN  IF ~execute_ok
        THEN Bfe_Finish(called, "INTERNAL", <<"kInternalServerError">>)
        ELSE called

\* the callback GetProtectedAudienceBids hands to the key-value provider
OnBiddingSignalsDone(g, response, execute_ok) ==
    LET h == [g EXCEPT !.kv.state = "done"]
    IN  IF ~response.ok
        THEN Bfe_Finish(h, response.code, <<"BiddingSignalsStatusMessage">>)
        ELSE PrepareAndGenerateProtectedAudienceBid(
                 h, response.bidding_signals, execute_ok)

\* an EncryptResponse that reports success after it finished the RPC
Bfe_EncryptResponse_FinishAndContinue(g, aead_ok) ==
    IF ~aead_ok
    THEN <<Bfe_Finish(g, "INTERNAL", <<"AeadEncryptStatus">>), TRUE>>
    ELSE <<[g EXCEPT !.get_bids_response_.response_ciphertext =
                         <<g.get_bids_raw_response_>>], TRUE>>

\* <<reactor, whether encryption succeeded>>
Bfe_EncryptResponse(g, aead_ok) ==
    IF ~aead_ok
    THEN <<Bfe_Finish(g, "INTERNAL", <<"AeadEncryptStatus">>), FALSE>>
    ELSE <<[g EXCEPT !.get_bids_response_.response_ciphertext =
                         <<g.get_bids_raw_response_>>], TRUE>>

\* the callback PrepareAndGenerateProtectedAudienceBid hands to the Bidding
\* client
OnGenerateBidsDone(g, raw_response, aead_ok) ==
    LET h == [g EXCEPT !.bidding.state = "done"]
    IN  IF ~raw_response.ok THEN
            Bfe_Finish(h, raw_response.code,
                       <<"Execution of GenerateBids request failed with status: ",
                         "GenerateBidsStatusMessage">>)
        ELSE
            LET parsed ==
                    [h EXCEPT !.get_bids_raw_response_ =
                        <<[bids |-> BidsOf(h.raw_request_[1].buyer_input,
                                           raw_response.ig_bid, 1)]>>]
                encrypted == Bfe_EncryptResponse(parsed, aead_ok)
            IN  IF ~encrypted[2] THEN encrypted[1]
                ELSE Bfe_FinishWithOkStatus(encrypted[1])

\* the reactor of the GetBids RPC while the SelectAd reactor is observed
GetBidsIdle ==
    GetBidsUnaryReactor([key_id |-> "k1", request_ciphertext |-> "ok",
                         buyer_input |-> <<>>])

(* ------------- decoding the buyer inputs of a browser request ----------- *)
\* Shapes of the CBOR data DecodeBuyerInputs walks. An item is known by its
\* CBOR type; the records below keep, per schema position, the type the
\* client put there. positive_int is what kCborDataTypesLookup calls a uint.
MaxPrevWins == 1

kString == "string"
kInt == "int"
kArray == "array"
kMap == "map"
kCborTypePositiveInt == "positive_int"

\* a prevWins entry: any item; an array entry lists the types of its elements
PrevWinsEntries ==
    {[type |-> kCborTypePositiveInt, items |-> <<>>]} \cup
    {[type |-> kArray, items |-> s] :
        s \in {<<kCborTypePositiveInt>>,
               <<kCborTypePositiveInt, kString>>,
               <<kString, kString>>,
               <<kCborTypePositiveInt, kCborTypePositiveInt>>,
               <<kCborTypePositiveInt, kString, kString>>}}

PrevWinsLists ==
    UNION {[1..n -> PrevWinsEntries] : n \in 0..MaxPrevWins}

\* browserSignals of an interest group: bidCount and prevWins, in this order
BrowserSignalsItems ==
    {[type |-> kArray, bid_count |-> kCborTypePositiveInt, prev_wins |-> <<>>]}
    \cup [type : {kMap}, bid_count : {kCborTypePositiveInt, kString},
          prev_wins : PrevWinsLists]

\* an interest group: name and browserSignals, in this order
InterestGroupItems ==
    {[type |-> kCborTypePositiveInt, name |-> kString,
      browser_signals |-> [type |-> kMap, bid_count |-> kCborTypePositiveInt,
                           prev_wins |-> <<>>]]}
    \cup [type : {kMap}, name : {kString, kCborTypePositiveInt},
          browser_signals : BrowserSignalsItems]

\* the compressed buyer input of one owner
CompressedBuyerInputs ==
    {[gzip_ok |-> FALSE, cbor_ok |-> FALSE, type |-> kArray,
      interest_groups |-> <<>>],
     [gzip_ok |-> TRUE, cbor_ok |-> FALSE, type |-> kArray,
      interest_groups |-> <<>>],
     [gzip_ok |-> TRUE, cbor_ok |-> TRUE, type |-> kMap,
      interest_groups |-> <<>>],
     [gzip_ok |-> TRUE, cbor_ok |-> TRUE, type |-> kArray,
      interest_groups |-> <<>>]}
    \cup {[gzip_ok |-> TRUE, cbor_ok |-> TRUE, type |-> kArray,
           interest_groups |-> <<ig>>] : ig \in InterestGroupItems}

\* EncodedBuyerInputs: owner -> compressed buyer input, in iteration order
DecodeOwners == <<"a", "b">>

EncodedBuyerInputsSet == [1..Len(DecodeOwners) -> CompressedBuyerInputs]

\* what reading one element past the end of a CBOR array can give: the
\* process dies, or the bytes found there are taken for an item of some type
OutOfBoundsReads == {"crash", kString, kCborTypePositiveInt, "unknown"}

\* the error accumulator during decoding, and whether the process is alive
NoDecodeErrors == [errors |-> <<>>, crashed |-> FALSE, decoded |-> {}]

Decode_ReportError(acc, error) == [acc EXCEPT !.errors = Append(@, error)]

Decode_HasErrors(acc) == acc.errors # <<>>

\* RETURN_IF_PREV_ERRORS(error_accumulator, should_fail_fast, to_return)
ReturnIfPrevErrors(acc, should_fail_fast) ==
    acc.crashed \/ (Decode_HasErrors(acc) /\ should_fail_fast)

kInvalidTypeError(field_name, expected_type, actual_type) ==
    "Invalid type provided for (field: " \o field_name \o ", expected: "
    \o expected_type \o ", observed: " \o actual_type \o ")"

kPrevWinsNotCorrectLengthError(owner) ==
    "Found browserSignals.prevWins array of not length 2 for owner '"
    \o owner \o "'"

kMalformedCompressedIgError(owner) ==
    "Malformed bytestring for compressed interest groups for buyer: " \o owner

kInvalidBuyerInputCborError(owner) ==
    "Invalid BuyerInput CBOR document for buyer: " \o owner

\* is_valid_type(item) for the checks the decoder makes: cbor_is_int accepts
\* the positive integers of this model, cbor_isa_* the type itself
IsOfType(actual_type, expected_type) ==
    IF expected_type = kInt THEN actual_type = kCborTypePositiveInt
    ELSE actual_type = expected_type

IsTypeValid(actual_type, field_name, expected_type, acc) ==
    IF IsOfType(actual_type, expected_type) THEN acc
    ELSE Decode_ReportError(
             acc, kInvalidTypeError(field_name, expected_type, actual_type))

\* cbor_array_get(item, index), index counted from 1 here: past the end of the
\* array the read is out of bounds
cbor_array_get(items, index, out_of_bounds) ==
    IF index <= Len(items) THEN items[index] ELSE out_of_bounds

\* one prevWins entry: the accumulator after it, and whether the function
\* returns at this entry
PrevWinsEntry(prev_win, owner, acc, fail_fast, out_of_bounds) ==
    LET a1 == IsTypeValid(prev_win.type, "prevWins[x]", kArray, acc)
        a2 == IF Len(prev_win.items) # 2
              THEN Decode_ReportError(a1, kPrevWinsNotCorrectLengthError(owner))
              ELSE a1
        relative_time == cbor_array_get(prev_win.items, 1, out_of_bounds)
        a3 == IF relative_time = "crash" THEN [a2 EXCEPT !.crashed = TRUE]
              ELSE IsTypeValid(relative_time, "prevWin[0]", kInt, a2)
        maybe_ad_render_id == cbor_array_get(prev_win.items, 2, out_of_bounds)
        a4 == IF maybe_ad_render_id = "crash" THEN [a3 EXCEPT !.crashed = TRUE]
              ELSE IsTypeValid(maybe_ad_render_id, "prevWin[1]", kString, a3)
    IN  IF ReturnIfPrevErrors(a1, fail_fast) THEN <<a1, TRUE>>
        ELSE IF ~IsOfType(prev_win.type, kArray) THEN <<a1, FALSE>>
        ELSE IF Len(prev_win.items) # 2 /\ ReturnIfPrevErrors(a2, fail_fast)
             THEN <<a2, TRUE>>
        ELSE IF ReturnIfPrevErrors(a3, fail_fast) THEN <<a3, TRUE>>
        ELSE <<a4, ReturnIfPrevErrors(a4, fail_fast)>>

RECURSIVE GetStringifiedPrevWins(_, _, _, _, _, _)
GetStringifiedPrevWins(prev_wins_entries, i, owner, acc, fail_fast, out_of_bounds) ==
    IF i > Len(prev_wins_entries) THEN acc
    ELSE LET r == PrevWinsEntry(prev_wins_entries[i], owner, acc, fail_fast,
                                out_of_bounds)
         IN  IF r[2] THEN r[1]
             ELSE GetStringifiedPrevWins(prev_wins_entries, i + 1, owner,
                                         r[1], fail_fast, out_of_bounds)

DecodeBrowserSignals(root, owner, acc, fail_fast, out_of_bounds) ==
    LET a1 == IsTypeValid(root.type, "browserSignals", kMap, acc)
        \* bidCount: the key is a string, then the value is checked
        a2 == IsTypeValid(root.bid_count, "browserSignals.bidCount", kInt, a1)
        \* prevWins: the key is a string, then the value, an array here
        a3 == GetStringifiedPrevWins(root.prev_wins, 1, owner, a2, fail_fast,
                                     out_of_bounds)
    IN  IF ReturnIfPrevErrors(a1, ~IsOfType(root.type, kMap)) THEN a1
        ELSE IF ReturnIfPrevErrors(a1, fail_fast) THEN a1
        ELSE IF ReturnIfPrevErrors(a2, fail_fast) THEN a2
        ELSE a3

\* one interest group of a buyer input: the accumulator after it, and whether
\* DecodeBuyerInput returns at this interest group
DecodeInterestGroup(interest_group, acc, fail_fast, out_of_bounds) ==
    LET a1 == IsTypeValid(interest_group.type, "interestGroups[x]", kMap, acc)
        a2 == IsTypeValid(interest_group.name, "interestGroups[x].name",
                          kString, a1)
        a3 == DecodeBrowserSignals(interest_group.browser_signals,
                                   "biddingSignalsKeys[x]", a2, fail_fast,
                                   out_of_bounds)
    IN  IF ReturnIfPrevErrors(a1, fail_fast) THEN <<a1, TRUE>>
        ELSE IF ~IsOfType(interest_group.type, kMap) THEN <<a1, FALSE>>
        ELSE IF ReturnIfPrevErrors(a2, fail_fast) THEN <<a2, TRUE>>
        ELSE <<a3, ReturnIfPrevErrors(a3, fail_fast)>>

RECURSIVE DecodeInterestGroups(_, _, _, _, _)
DecodeInterestGroups(interest_groups, i, acc, fail_fast, out_of_bounds) ==
    IF i > Len(interest_groups) THEN acc
    ELSE LET r == DecodeInterestGroup(interest_groups[i], acc, fail_fast,
                                      out_of_bounds)
         IN  IF r[2] THEN r[1]
             ELSE DecodeInterestGroups(interest_groups, i + 1, r[1],
                                       fail_fast, out_of_bounds)

DecodeBuyerInput(owner, compressed_buyer_input, acc, fail_fast, out_of_bounds) ==
    IF ~compressed_buyer_input.gzip_ok
    THEN Decode_ReportError(acc, kMalformedCompressedIgError(owner))
    ELSE IF ~compressed_buyer_input.cbor_ok
    THEN Decode_ReportError(acc, kInvalidBuyerInputCborError(owner))
    ELSE LET a1 == IsTypeValid(compressed_buyer_input.type, "BuyerInput",
                               kArray, acc)
         IN  IF ReturnIfPrevErrors(
                    a1, ~IsOfType(compressed_buyer_input.type, kArray))
             THEN a1
             ELSE DecodeInterestGroups(compressed_buyer_input.interest_groups,
                                       1, a1, fail_fast, out_of_bounds)

RECURSIVE DecodeBuyerInputs(_, _, _, _, _)
\* a loop over the owners that never returns early
DecodeBuyerInputs_NeverReturns(encoded_buyer_inputs, i, acc, fail_fast, out_of_bounds) ==
    IF i > Len(encoded_buyer_inputs) THEN acc
    ELSE LET a1 == DecodeBuyerInput(DecodeOwners[i], encoded_buyer_inputs[i],
                                    acc, fail_fast, out_of_bounds)
         IN  DecodeBuyerInputs(encoded_buyer_inputs, i + 1,
                               [a1 EXCEPT !.decoded = @ \cup {DecodeOwners[i]}],
                               fail_fast, out_of_bounds)

\* the accumulator after the loop over the owners, from owner i on, with the
\* owners inserted into decoded_buyer_inputs
DecodeBuyerInputs(encoded_buyer_inputs, i, acc, fail_fast, out_of_bounds) ==
    IF i > Len(encoded_buyer_inputs) THEN acc
    ELSE LET a1 == DecodeBuyerInput(DecodeOwners[i], encoded_buyer_inputs[i],
                                    acc, fail_fast, out_of_bounds)
         IN  IF ReturnIfPrevErrors(a1, fail_fast) THEN a1
             ELSE DecodeBuyerInputs(encoded_buyer_inputs, i + 1,
                                    [a1 EXCEPT !.decoded =
                                         @ \cup {DecodeOwners[i]}],
                                    fail_fast, out_of_bounds)

\* what Execute does after decoding: with an error in the accumulator it
\* ends the request through OnScoreAdsDone, without one it goes on
Decode_Execute(acc) ==
    IF Decode_HasErrors(acc) THEN "OnScoreAdsDone" ELSE "FanOut"

kErrorDelimiter == ";"

\* absl::StrJoin(errors, kErrorDelimiter)
RECURSIVE StrJoin(_, _)
StrJoin(errors, delimiter) ==
    IF errors = <<>> THEN ""
    ELSE IF Len(errors) = 1 THEN errors[1]
    ELSE errors[1] \o delimiter \o StrJoin(Tail(errors), delimiter)

\* a decoding of buyer inputs: what is decoded, how, and what came of it
Decoder(encoded_buyer_inputs, fail_fast) ==
    [encoded_buyer_inputs |-> encoded_buyer_inputs,
     fail_fast |-> fail_fast,
     pc |-> "New",
     error_accumulator |-> NoDecodeErrors,
     message |-> "",
     proceeds |-> ""]

\* the decoder while one of the reactors is observed
DecoderIdle == Decoder(<<>>, TRUE)

(* ------------- the ScoreAds reactor of the Auction service ------------- *)
\* most ads one ScoreAdsRawRequest carries
MaxAdBids == 2

RenderUrls == {"r1", "r2"}

Desirabilities == {0, 1}

kNoAdsToScore == "no_ads_to_score"
kNoTrustedScoringSignals == "no_trusted_scoring_signals"
kNoAdsWithValidScoringSignals == "no_ads_with_valid_scoring_signals"

\* scoring_signals is a string: the empty one, or the JSON object
\* {"renderUrls": {url: [...]}} with signals for a set of render URLs
ScoringSignalsTexts ==
    {<<>>} \cup {<<"renderUrls", urls>> : urls \in SUBSET RenderUrls}

ScoreAdsRawRequests ==
    [ad_bids : SeqsUpTo([render : RenderUrls], MaxAdBids),
     scoring_signals : ScoringSignalsTexts]

ScoreAdsReactor(raw_request) ==
    [raw_request_ |-> raw_request, pc |-> "New", dispatches |-> 0,
     dispatch_requests |-> <<>>, ad_scores |-> <<>>,
     status |-> NoStatus]

ScoreAds_Finish(r, code, message) ==
    [r EXCEPT !.pc = "Done", !.status = [code |-> code, message |-> message]]

\* one DispatchRequest per ad whose render URL has scoring signals
BuildDispatchRequests(ad_bids, scoring_signals) ==
    SelectSeq([i \in DOMAIN ad_bids |-> [id |-> i, ad |-> ad_bids[i]]],
              LAMBDA d : d.ad.render \in scoring_signals[2])

\* a reactor that dispatches whatever it is given
ScoreAds_Execute_NoValidation(r) ==
    LET requests ==
            IF r.raw_request_.scoring_signals = <<>> THEN <<>>
            ELSE BuildDispatchRequests(r.raw_request_.ad_bids,
                                       r.raw_request_.scoring_signals)
    IN  [r EXCEPT !.pc = "Dispatching", !.dispatches = @ + 1,
                  !.dispatch_requests = requests]

ScoreAds_Execute(r) ==
    IF r.raw_request_.ad_bids = <<>>
    THEN ScoreAds_Finish(r, "INVALID_ARGUMENT", kNoAdsToScore)
    ELSE IF r.raw_request_.scoring_signals = <<>>
    THEN ScoreAds_Finish(r, "INVALID_ARGUMENT", kNoTrustedScoringSignals)
    ELSE LET requests ==
                 BuildDispatchRequests(r.raw_request_.ad_bids,
                                       r.raw_request_.scoring_signals)
         IN  IF requests = <<>>
             THEN ScoreAds_Finish(r, "INVALID_ARGUMENT",
                                  kNoAdsWithValidScoringSignals)
             ELSE [r EXCEPT !.pc = "Dispatching", !.dispatches = @ + 1,
                            !.dispatch_requests = requests]

\* the batch callback: the scores are kept and the RPC is finished
ScoreAdsCallback(r, dispatch_ok, desirability) ==
    IF ~dispatch_ok
    THEN ScoreAds_Finish(r, "INTERNAL", "dispatch_failure")
    ELSE ScoreAds_Finish(
             [r EXCEPT !.ad_scores =
                  [i \in DOMAIN r.dispatch_requests |->
                       [id |-> r.dispatch_requests[i].id,
                        desirability |-> desirability[i]]]],
             "OK", "")

(* --------------------- debug-reporting URLs --------------------- *)
\* most pieces (literal text or placeholder) of one debug URL
MaxUrlPieces == 2

kWinningBidPlaceholder == "${winningBid}"
kMadeWinningBidPlaceholder == "${madeWinningBid}"
kHighestScoringOtherBidPlaceholder == "${highestScoringOtherBid}"
kMadeHighestScoringOtherBidPlaceholder == "${madeHighestScoringOtherBid}"
kRejectReasonPlaceholder == "${rejectReason}"

kRejectionReasonNotAvailable == "not-available"
kRejectionReasonInvalidBid == "invalid-bid"
kRejectionReasonBidBelowAuctionFloor == "bid-below-auction-floor"
kRejectionReasonPendingApprovalByExchange == "pending-approval-by-exchange"
kRejectionReasonDisapprovedByExchange == "disapproved-by-exchange"
kRejectionReasonBlockedByPublisher == "blocked-by-publisher"
kRejectionReasonLanguageExclusions == "language-exclusions"
kRejectionReasonCategoryExclusions == "category-exclusions"

\* the enumerators of SellerRejectionReason, and a number that names none
\* of them (the enum is open: a message may carry any int32)
SellerRejectionReasons ==
    {"SELLER_REJECTION_REASON_NOT_AVAILABLE", "INVALID_BID",
     "BID_BELOW_AUCTION_FLOOR", "PENDING_APPROVAL_BY_EXCHANGE",
     "DISAPPROVED_BY_EXCHANGE", "BLOCKED_BY_PUBLISHER", "LANGUAGE_EXCLUSIONS",
     "CATEGORY_EXCLUSIONS", "UNRECOGNIZED"}

\* a URL is a sequence of pieces: literal text or one of the placeholders
UrlPieces ==
    {"https://wikipedia.org?r=", kWinningBidPlaceholder,
     kMadeWinningBidPlaceholder, kHighestScoringOtherBidPlaceholder,
     kMadeHighestScoringOtherBidPlaceholder, kRejectReasonPlaceholder}

DebugUrls == SeqsUpTo(UrlPieces, MaxUrlPieces)

\* owner -> interest group name -> reason, for the owners that have one
RejectionReasonMaps ==
    UNION {[owners -> [{"x"} -> SellerRejectionReasons]] :
               owners \in {{}, {"a"}}}

PostAuctionSignalsSet ==
    [winning_ig_owner : Buyers, winning_bid : {1},
     highest_scoring_other_bid : BidValues,
     highest_scoring_other_bid_ig_owner : {"b"},
     has_highest_scoring_other_bid : BOOLEAN,
     rejection_reason_map : RejectionReasonMaps]

\* absl::StrCat of a bid
StrCat(number) == IF number = 0 THEN "0" ELSE "1"

BoolText(b) == IF b THEN "true" ELSE "false"

\* a conversion that prints what it is given
ToSellerRejectionReasonString_EnumName(rejection_reason) ==
    IF rejection_reason = "INVALID_BID" THEN kRejectionReasonInvalidBid
    ELSE rejection_reason

ToSellerRejectionReasonString(rejection_reason) ==
    CASE rejection_reason = "INVALID_BID" -> kRejectionReasonInvalidBid
      [] rejection_reason = "BID_BELOW_AUCTION_FLOOR" ->
             kRejectionReasonBidBelowAuctionFloor
      [] rejection_reason = "PENDING_APPROVAL_BY_EXCHANGE" ->
             kRejectionReasonPendingApprovalByExchange
      [] rejection_reason = "DISAPPROVED_BY_EXCHANGE" ->
             kRejectionReasonDisapprovedByExchange
      [] rejection_reason = "BLOCKED_BY_PUBLISHER" ->
             kRejectionReasonBlockedByPublisher
      [] rejection_reason = "LANGUAGE_EXCLUSIONS" ->
             kRejectionReasonLanguageExclusions
      [] rejection_reason = "CATEGORY_EXCLUSIONS" ->
             kRejectionReasonCategoryExclusions
      [] OTHER -> kRejectionReasonNotAvailable

GetPlaceholderDataForInterestGroup(interest_group_owner, interest_group_name, post_auction_signals) ==
    LET map == post_auction_signals.rejection_reason_map
    IN  [winning_bid |-> post_auction_signals.winning_bid,
         made_winning_bid |->
             interest_group_owner = post_auction_signals.winning_ig_owner,
         highest_scoring_other_bid |->
             post_auction_signals.highest_scoring_other_bid,
         made_highest_scoring_other_bid |->
             /\ post_auction_signals.has_highest_scoring_other_bid
             /\ interest_group_owner =
                    post_auction_signals.highest_scoring_other_bid_ig_owner,
         rejection_reason |->
             IF /\ interest_group_owner \in DOMAIN map
                /\ interest_group_name \in DOMAIN map[interest_group_owner]
             THEN map[interest_group_owner][interest_group_name]
             ELSE "SELLER_REJECTION_REASON_NOT_AVAILABLE"]

\* absl::StrReplaceAll: every placeholder of the URL is replaced, the text
\* put in is not looked at again
StrReplaceAll(url, replacements) ==
    [i \in DOMAIN url |->
        IF url[i] \in DOMAIN replacements THEN replacements[url[i]]
        ELSE url[i]]

CreateDebugReportingHttpRequest(url, placeholder_data) ==
    LET replacements ==
            [ph \in {kWinningBidPlaceholder, kMadeWinningBidPlaceholder,
                     kHighestScoringOtherBidPlaceholder,
                     kMadeHighestScoringOtherBidPlaceholder,
                     kRejectReasonPlaceholder} |->
                CASE ph = kWinningBidPlaceholder ->
                         StrCat(placeholder_data.winning_bid)
                  [] ph = kMadeWinningBidPlaceholder ->
                         BoolText(placeholder_data.made_winning_bid)
                  [] ph = kHighestScoringOtherBidPlaceholder ->
                         StrCat(placeholder_data.highest_scoring_other_bid)
                  [] ph = kMadeHighestScoringOtherBidPlaceholder ->
                         BoolText(placeholder_data.made_highest_scoring_other_bid)
                  [] OTHER ->
                         ToSellerRejectionReasonString(
                             placeholder_data.rejection_reason)]
    IN  [url |-> StrReplaceAll(url, replacements), headers |-> <<>>]

NoPlaceholderData ==
    [winning_bid |-> 0, made_winning_bid |-> FALSE,
     highest_scoring_other_bid |-> 0,
     made_highest_scoring_other_bid |-> FALSE,
     rejection_reason |-> "SELLER_REJECTION_REASON_NOT_AVAILABLE"]

DebugReport(url, interest_group_owner, post_auction_signals) ==
    [pc |-> "New", url |-> url, interest_group_owner |-> interest_group_owner,
     interest_group_name |-> "x",
     post_auction_signals |-> post_auction_signals,
     placeholder_data |-> NoPlaceholderData,
     http_request |-> [url |-> <<>>, headers |-> <<>>]]

(* ---------------- the timeouts along one SelectAd call ---------------- *)
\* largest timeout, in milliseconds
MaxTimeoutMs == 2

TimeoutsMs == 1..MaxTimeoutMs

\* what the operators configured and what the caller sent
TimeoutConfigs ==
    [client_deadline_ms : TimeoutsMs,       \* deadline of the SelectAd call
     GET_BID_RPC_TIMEOUT_MS : TimeoutsMs,   \* flag of the SFE
     buyer_timeout_ms : 0..MaxTimeoutMs,    \* auction_config, 0 when unset
     generate_bid_timeout_ms : TimeoutsMs,  \* GetBidsConfig of the BFE
     ROMA_TIMEOUT_MS : TimeoutsMs]          \* flag of the Bidding service

Timeouts(config) ==
    [config |-> config, pc |-> "SelectAd", get_bids_timeout |-> 0,
     generate_bids_timeout |-> 0, dispatch_timeout |-> 0]

\* FetchBid: the timeout handed to the GetBids call
GetBidsTimeout(config) ==
    IF config.buyer_timeout_ms > 0 THEN config.buyer_timeout_ms
    ELSE config.GET_BID_RPC_TIMEOUT_MS

\* PrepareAndGenerateProtectedAudienceBid: the timeout handed to GenerateBids
GenerateBidsTimeout(config) == config.generate_bid_timeout_ms

\* the Bidding service: the timeout handed to the dispatcher
DispatchTimeout(config) == config.ROMA_TIMEOUT_MS

(* ------------- the fan-out, one thread per completion callback ------------- *)
\* most entries of buyer_list
MaxFanOut == 2

\* no thread holds the lock
NoThread == -1

\* buyer lists of the fan-out: not empty, a buyer may appear more than once
FanOutBuyerLists == SeqsUpTo(Buyers, MaxFanOut) \ {<<>>}

CompletedBidStates == {"SUCCESS", "EMPTY_RESPONSE", "ERROR", "SKIPPED"}

\* thread 0 runs Execute; thread i runs the callback of entry i of buyer_list
FanOut(buyer_list, buyer_inputs, clients) ==
    [buyer_list |-> buyer_list, buyer_inputs_ |-> buyer_inputs,
     clients |-> clients,
     idx |-> 1,
     call |-> [i \in DOMAIN buyer_list |-> "none"],
     thread |-> [t \in 0..Len(buyer_list) |->
                    [pc |-> "Idle", state |-> "", entry |-> t]],
     mu_ |-> NoThread,
     pending |-> Len(buyer_list),
     shared_buyer_bids_map_ |-> {},
     reports |-> [i \in DOMAIN buyer_list |-> 0],
     completed |-> [i \in DOMAIN buyer_list |-> ""],
     all_bids_done |-> 0,
     any_successful_bids |-> FALSE,
     reader |-> "None",
     reads |-> 0,
     early_reads |-> 0]

\* thread t enters BidStats::BidCompleted for an entry of buyer_list
FanOut_BidCompleted(f, t, entry, completed_bid_state) ==
    [f EXCEPT !.thread[t] = [pc |-> "Lock", state |-> completed_bid_state,
                             entry |-> entry]]

\* a FetchBid whose failed ExecuteInternal also leaves the callback to run
FanOut_FetchBid_AlsoCallback(f, i, execute_ok) ==
    IF f.buyer_list[i] \notin f.clients
    THEN FanOut_BidCompleted(f, 0, i, "SKIPPED")
    ELSE IF ~execute_ok
         THEN FanOut_BidCompleted([f EXCEPT !.call[i] = "inflight"],
                                  0, i, "ERROR")
         ELSE [f EXCEPT !.call[i] = "inflight", !.idx = @ + 1]

\* FetchBid for entry i: no stub, the call cannot be started, or it is started
FanOut_FetchBid(f, i, execute_ok) ==
    IF f.buyer_list[i] \notin f.clients
    THEN FanOut_BidCompleted(f, 0, i, "SKIPPED")
    ELSE IF ~execute_ok
         THEN FanOut_BidCompleted([f EXCEPT !.call[i] = "not_started"],
                                  0, i, "ERROR")
         ELSE [f EXCEPT !.call[i] = "inflight", !.idx = @ + 1]

\* a loop of Execute that does not look for the buyer's BuyerInput
FanOut_ExecuteLoop_NoInputCheck(f, execute_ok) ==
    FanOut_FetchBid(f, f.idx, execute_ok)

\* one iteration of the loop of Execute
FanOut_ExecuteLoop(f, execute_ok) ==
    IF f.buyer_list[f.idx] \in f.buyer_inputs_
    THEN FanOut_FetchBid(f, f.idx, execute_ok)
    ELSE FanOut_BidCompleted(f, 0, f.idx, "SKIPPED")

\* the callback of entry i runs on its thread
FanOut_OnFetchBidsDone(f, i, completed_bid_state) ==
    FanOut_BidCompleted([f EXCEPT !.call[i] = "delivered"], i, i,
                        completed_bid_state)

\* a lock that is taken whether or not another thread holds it
MutexLock_NoExclusion(f, t) ==
    [f EXCEPT !.mu_ = t, !.thread[t].pc = "Held"]

\* absl::MutexLock lock(&mu_): taken when no thread holds it
MutexLock(f, t) ==
    IF f.mu_ = NoThread
    THEN [f EXCEPT !.mu_ = t, !.thread[t].pc = "Held"]
    ELSE f

\* is every report counted and no thread inside BidCompleted before its count
AllCallbacksCompleted(f) ==
    /\ f.pending = 0
    /\ \A t \in DOMAIN f.thread : f.thread[t].pc \notin {"Lock", "Held", "Counting"}
    /\ \A i \in DOMAIN f.call : f.call[i] # "inflight"

\* the map is read n times
ReadMap(f, n) ==
    [f EXCEPT !.reads = @ + n,
              !.early_reads = IF AllCallbacksCompleted(f) THEN @ ELSE @ + n]

\* on_single_bid_done: try_emplace of the buyer's response, under the lock
OnSingleBidDone(f, t) ==
    [f EXCEPT !.shared_buyer_bids_map_ =
                  IF f.thread[t].state = "SUCCESS"
                  THEN @ \cup {f.buyer_list[f.thread[t].entry]} ELSE @,
              !.thread[t].pc = "Counting"]

\* the pending count is decremented and the report counted
CountBid(f, t) ==
    [f EXCEPT !.pending = @ - 1,
              !.reports[f.thread[t].entry] = @ + 1,
              !.completed[f.thread[t].entry] = f.thread[t].state,
              !.any_successful_bids =
                  @ \/ f.thread[t].state \in {"SUCCESS", "EMPTY_RESPONSE", "SKIPPED"},
              !.thread[t].pc = IF f.pending - 1 = 0 THEN "Collating"
                               ELSE "Unlock"]

\* on_all_bids_done_: OnAllBidsDone looks whether the map is empty; an empty
\* map ends the RPC or goes on to OnScoreAdsDone with a chaff, and from a map
\* that is not empty the scoring-signals request is built
FanOut_OnAllBidsDone(f, t) ==
    LET g == [f EXCEPT !.all_bids_done = @ + 1, !.thread[t].pc = "Unlock"]
    IN  IF f.shared_buyer_bids_map_ = {}
        THEN [ReadMap(g, IF f.any_successful_bids THEN 3 ELSE 1)
                  EXCEPT !.reader = "Done"]
        ELSE [ReadMap(g, 2) EXCEPT !.reader = "AwaitScoringSignals"]

\* the lock is released; Execute goes on to the next entry of buyer_list
MutexUnlock(f, t) ==
    [f EXCEPT !.mu_ = IF @ = t THEN NoThread ELSE @,
              !.thread[t].pc = IF t = 0 THEN "Idle" ELSE "Done",
              !.idx = IF t = 0 THEN @ + 1 ELSE @]

\* OnFetchScoringSignalsDone: CreateScoreAdsRequest reads the map
FanOut_OnFetchScoringSignalsDone(f) ==
    [ReadMap(f, 1) EXCEPT !.reader = "AwaitScoreAds"]

\* OnScoreAdsDone: GetBiddingGroups and PerformDebugReporting read the map
FanOut_OnScoreAdsDone(f) ==
    [ReadMap(f, 2) EXCEPT !.reader = "Done"]

(* ------- the reactor object and the callbacks of debug reporting ------- *)
\* most bids with debug-report URLs in the buyer-bids map
MaxDebugReports == 2

\* how building and sealing the response goes
LifetimeOutcomes == {"ok", "seal_error", "cbor_build_float_error"}

\* the reactor when the ScoreAds callback is about to run, with the number
\* of bids of the map that carry debug_report_urls
Lifetime(urls, enc) ==
    [pc |-> "AwaitScoreAds",
     urls |-> urls,
     enc |-> enc,
     reports |-> [i \in 1..urls |-> "none"],
     status |-> NoStatus,
     response_ |-> <<>>,
     alive |-> TRUE,
     logged |-> 0,
     use_after_free |-> 0,
     crashed |-> FALSE]

\* PerformDebugReporting: one DoReport per bid with debug_report_urls; each
\* done_cb holds a reference to logger_ of the reactor
Lifetime_PerformDebugReporting(l) ==
    [l EXCEPT !.reports = [i \in 1..l.urls |-> "inflight"],
              !.pc = "Reported"]

\* the status and the response the rest of OnScoreAdsDone ends with
LifetimeResult(enc) ==
    IF enc = "ok"
    THEN [pc |-> "Finished", status |-> [code |-> "OK", message |-> <<>>],
          response_ |-> <<"ciphertext">>]
    ELSE IF enc = "seal_error"
    THEN [pc |-> "Finished",
          status |-> [code |-> "INTERNAL",
                      message |-> <<"kInternalServerError">>],
          response_ |-> <<>>]
    ELSE [pc |-> "Returned", status |-> NoStatus, response_ |-> <<>>]

\* a reactor that finishes only when every debug report has completed, and
\* with an error when one of them failed
Lifetime_Finish_AfterReports(l) ==
    IF \E i \in DOMAIN l.reports : l.reports[i] = "inflight" THEN l
    ELSE IF \E i \in DOMAIN l.reports : l.reports[i] = "failed"
    THEN [l EXCEPT !.pc = "Finished",
                   !.status = [code |-> "INTERNAL",
                               message |-> <<"kInternalServerError">>]]
    ELSE [l EXCEPT !.pc = LifetimeResult(l.enc).pc,
                   !.status = LifetimeResult(l.enc).status,
                   !.response_ = LifetimeResult(l.enc).response_]

\* the rest of OnScoreAdsDone: the response is built and sealed and the RPC
\* finished, whatever the reports do
Lifetime_Finish(l) ==
    [l EXCEPT !.pc = LifetimeResult(l.enc).pc,
              !.status = LifetimeResult(l.enc).status,
              !.response_ = LifetimeResult(l.enc).response_]

\* OnDone: delete this
Lifetime_OnDone(l) == [l EXCEPT !.pc = "Destroyed", !.alive = FALSE]

\* done_cb of report i runs: it logs through logger_ of the reactor; after
\* the reactor was deleted that reference dangles, and the read may go
\* unnoticed or crash the process
Lifetime_done_cb(l, i, ok, crashes) ==
    LET m == [l EXCEPT !.reports[i] = IF ok THEN "ok" ELSE "failed"]
    IN  IF l.alive
        THEN [m EXCEPT !.logged = @ + 1]
        ELSE [m EXCEPT !.use_after_free = @ + 1,
                       !.crashed = @ \/ crashes]

(* ------------ one execution of the reporting entry function ------------ *)
\* most calls of sendReportTo and registerAdBeacon one ad-tech function makes
MaxJsCalls == 3

\* the URLs and event maps the ad-tech code may pass
JsArguments == {"u1", "u2"}

\* ps_report_result_response and ps_report_win_response as the wrappers
\* create them, with counts of the calls made, the values recorded and the
\* errors thrown
NewReportResponse ==
    [url |-> "", interactionReportingUrls |-> "",
     sendReportToInvoked |-> FALSE, registerAdBeaconInvoked |-> FALSE,
     send_calls |-> 0, beacon_calls |-> 0,
     url_writes |-> 0, beacon_writes |-> 0, throws |-> 0]

\* reportingEntryFunction when it calls reportResult
JsReport(enableReportWinUrlGeneration) ==
    [pc |-> "reportResult",
     enableReportWinUrlGeneration |-> enableReportWinUrlGeneration,
     ps_report_result_response |-> NewReportResponse,
     ps_report_win_response |-> NewReportResponse,
     calls |-> 0]

\* a sendReportTo that records every URL it is given
sendReportTo_Overwrites(r, url) ==
    [r EXCEPT !.send_calls = @ + 1, !.url = url,
              !.sendReportToInvoked = TRUE, !.url_writes = @ + 1]

\* globalThis.sendReportTo of either wrapper, on its response object
sendReportTo(r, url) ==
    IF r.sendReportToInvoked
    THEN [r EXCEPT !.send_calls = @ + 1, !.throws = @ + 1]
    ELSE [r EXCEPT !.send_calls = @ + 1, !.url = url,
                   !.sendReportToInvoked = TRUE, !.url_writes = @ + 1]

\* globalThis.registerAdBeacon of either wrapper, on its response object
registerAdBeacon(r, eventUrlMap) ==
    IF r.registerAdBeaconInvoked
    THEN [r EXCEPT !.beacon_calls = @ + 1, !.throws = @ + 1]
    ELSE [r EXCEPT !.beacon_calls = @ + 1,
                   !.interactionReportingUrls = eventUrlMap,
                   !.registerAdBeaconInvoked = TRUE, !.beacon_writes = @ + 1]

\* the call the ad-tech code makes
JsCall(r, function, argument) ==
    IF function = "sendReportTo" THEN sendReportTo(r, argument)
    ELSE registerAdBeacon(r, argument)

\* reportResult calls one of the two functions; its call is outside the try
\* block, so an error leaves reportingEntryFunction
Js_reportResult_Call(j, function, argument) ==
    LET r == JsCall(j.ps_report_result_response, function, argument)
    IN  [j EXCEPT !.ps_report_result_response = r,
                  !.calls = @ + 1,
                  !.pc = IF r.throws > 0 THEN "Thrown" ELSE @]

\* reportResult returns: the reportWin wrapper is run when enabled
Js_reportResult_Return(j) ==
    [j EXCEPT !.pc = IF j.enableReportWinUrlGeneration THEN "reportWin"
                     ELSE "Returned",
              !.calls = 0]

\* reportWin calls one of the two functions of its wrapper; an error is
\* caught by the wrapper, which returns its response
Js_reportWin_Call(j, function, argument) ==
    LET r == JsCall(j.ps_report_win_response, function, argument)
    IN  [j EXCEPT !.ps_report_win_response = r,
                  !.calls = @ + 1,
                  !.pc = IF r.throws > 0 THEN "Returned" ELSE @]

Js_reportWin_Return(j) == [j EXCEPT !.pc = "Returned"]

(* -------- browser signals copied by BuildAdWithBidMetadata -------- *)
\* most interest groups in the bidding buyer's BuyerInput
MaxBuyerIGs == 2

BuyerIGNames == {"x", "y", "z"}

ClientTypes == {"BROWSER", "ANDROID"}

\* an interest group of a BuyerInput with its browser signals
BrowserInterestGroups ==
    [name : BuyerIGNames, join_count : 1..2, recency : 3..4]

\* the interest-group lists of a BuyerInput: names are not repeated
BuyerInputLists ==
    {l \in UNION {[1..n -> BrowserInterestGroups] : n \in 1..MaxBuyerIGs} :
        \A i, j \in DOMAIN l : l[i].name = l[j].name => i = j}

\* std::strcmp as a condition: non-zero, hence true, when the strings differ
strcmp(a, b) == a # b

\* the loop over buyer_input.interest_groups() from position i on: the first
\* group for which the condition holds is copied (for a BROWSER request) and
\* ends the loop
RECURSIVE CopyBrowserSignals(_, _, _, _)
CopyBrowserSignals(result, interest_groups, client_type, i) ==
    IF i > Len(interest_groups) THEN result
    ELSE IF strcmp(interest_groups[i].name, result.interest_group_name)
    THEN IF client_type = "BROWSER"
         THEN [result EXCEPT !.join_count = interest_groups[i].join_count,
                             !.recency = interest_groups[i].recency]
         ELSE result
    ELSE CopyBrowserSignals(result, interest_groups, client_type, i + 1)

\* the AdWithBidMetadata built for a bid: join_count and recency are 0 until
\* they are set
BuildAdWithBidMetadata_BrowserSignals(input, interest_groups, client_type) ==
    CopyBrowserSignals([interest_group_name |-> input.interest_group_name,
                        join_count |-> 0, recency |-> 0],
                       interest_groups, client_type, 1)

AdMetadata(input, interest_groups, client_type) ==
    [pc |-> "Start", input |-> input, interest_groups |-> interest_groups,
     client_type |-> client_type,
     result |-> [interest_group_name |-> "", join_count |-> 0, recency |-> 0]]

(* ---------------- GeneratePostAuctionSignals ---------------- *)
\* most values in one entry of ig_owner_highest_scoring_other_bids_map
MaxOtherBidValues == 1

\* most entries of ad_rejection_reasons
MaxAdRejectionReasons == 1

NoAdScore == [has_value |-> FALSE]

\* ig_owner_highest_scoring_other_bids_map: owner -> list of values
OtherBidsMaps ==
    UNION {[owners -> SeqsUpTo({1}, MaxOtherBidValues)] :
               owners \in SUBSET Buyers}

AdRejectionReasons ==
    [interest_group_owner : Buyers, interest_group_name : {"x"},
     rejection_reason : {"INVALID_BID", "BLOCKED_BY_PUBLISHER"}]

WinningAdScores ==
    [has_value : {TRUE}, interest_group_owner : Buyers, buyer_bid : {1},
     ig_owner_highest_scoring_other_bids_map : OtherBidsMaps,
     ad_rejection_reasons : SeqsUpTo(AdRejectionReasons, MaxAdRejectionReasons)]

\* the signals returned when there is no winning ad: the kDefault values
DefaultPostAuctionSignals ==
    [winning_ig_owner |-> "", winning_bid |-> 0,
     highest_scoring_other_bid |-> 0,
     highest_scoring_other_bid_ig_owner |-> "",
     has_highest_scoring_other_bid |-> FALSE,
     rejection_reason_map |-> <<>>]

\* the rejection reasons grouped by owner and interest-group name; the
\* first reason of an interest group is kept (try_emplace)
RECURSIVE GroupRejectionReasons(_, _, _)
GroupRejectionReasons(reasons, i, map) ==
    IF i > Len(reasons) THEN map
    ELSE LET r == reasons[i]
             owner == r.interest_group_owner
             name == r.interest_group_name
             of_owner == IF owner \in DOMAIN map THEN map[owner] ELSE <<>>
             entry == IF name \in DOMAIN of_owner THEN of_owner
                      ELSE [n \in DOMAIN of_owner \cup {name} |->
                               IF n = name THEN r.rejection_reason
                               ELSE of_owner[n]]
         IN  GroupRejectionReasons(reasons, i + 1,
                 [o \in DOMAIN map \cup {owner} |->
                     IF o = owner THEN entry ELSE map[o]])

\* begin is the entry the map's begin() yields; indeterminate is the value
\* read from has_highest_scoring_other_bid when nothing was assigned to it
GeneratePostAuctionSignals(winning_ad_score, begin, indeterminate) ==
    IF ~winning_ad_score.has_value THEN DefaultPostAuctionSignals
    ELSE LET map == winning_ad_score.ig_owner_highest_scoring_other_bids_map
             found == map # <<>> /\ Len(map[begin]) > 0
         IN  [winning_ig_owner |-> winning_ad_score.interest_group_owner,
              winning_bid |-> winning_ad_score.buyer_bid,
              highest_scoring_other_bid |->
                  IF found THEN map[begin][1] ELSE 0,
              highest_scoring_other_bid_ig_owner |->
                  IF found THEN begin ELSE "",
              has_highest_scoring_other_bid |->
                  IF found THEN TRUE ELSE indeterminate,
              rejection_reason_map |->
                  GroupRejectionReasons(winning_ad_score.ad_rejection_reasons,
                                        1, <<>>)]

PostAuction(winning_ad_score) ==
    [pc |-> "Start", winning_ad_score |-> winning_ad_score,
     post_auction_signals |-> DefaultPostAuctionSignals,
     interest_group_owner |-> "",
     placeholder_data |->
         GetPlaceholderDataForInterestGroup("", "x", DefaultPostAuctionSignals)]

(* ------------------ nothing else is running ------------------ *)
ScoreAdsIdle == ScoreAdsReactor([ad_bids |-> <<>>, scoring_signals |-> <<>>])
DebugReportIdle ==
    DebugReport(<<>>, "a",
                [winning_ig_owner |-> "a", winning_bid |-> 1,
                 highest_scoring_other_bid |-> 0,
                 highest_scoring_other_bid_ig_owner |-> "b",
                 has_highest_scoring_other_bid |-> FALSE,
                 rejection_reason_map |-> <<>>])
TimeoutsIdle ==
    Timeouts([client_deadline_ms |-> 1, GET_BID_RPC_TIMEOUT_MS |-> 1,
              buyer_timeout_ms |-> 0, generate_bid_timeout_ms |-> 1,
              ROMA_TIMEOUT_MS |-> 1])
FanOutIdle == FanOut(<<"a">>, {}, {})

LifetimeIdle == Lifetime(0, "ok")
JsReportIdle == JsReport(FALSE)
AdMetadataIdle ==
    AdMetadata([interest_group_name |-> "x"],
               <<[name |-> "x", join_count |-> 1, recency |-> 3]>>, "ANDROID")
PostAuctionIdle == PostAuction(NoAdScore)

MoreIdle ==
    /\ lifetime = LifetimeIdle
    /\ js_report = JsReportIdle
    /\ ad_metadata = AdMetadataIdle
    /\ post_auction = PostAuctionIdle

OthersIdle ==
    /\ MoreIdle
    /\ score_ads = ScoreAdsIdle
    /\ debug_report = DebugReportIdle
    /\ timeouts = TimeoutsIdle
    /\ fan_out = FanOutIdle

(* ------------------------------- actions ------------------------------- *)
Init ==
    /\ request \in Requests
    /\ pc = "New"
    /\ cancelled = FALSE
    /\ error_accumulator_ = [CLIENT_VISIBLE |-> <<>>, AD_SERVER_VISIBLE |-> <<>>]
    /\ error_ = [code |-> 0, message |-> <<>>]
    /\ buyer_inputs_ = <<>>
    /\ fetch_idx = 0
    /\ bfe = [b \in Buyers |-> NoCall]
    /\ bid_stats_ = InitialBidStats(Len(request.buyer_list))
    /\ shared_buyer_bids_map_ = <<>>
    /\ scoring_signals_ = "null"
    /\ scoring = [calls |-> 0, request |-> <<>>, response |-> <<>>]
    /\ response_ = [auction_result_ciphertext |-> <<>>]
    /\ status = NoStatus
    /\ env = [cancel_pc |-> "", encrypt |-> "none", encode |-> "none",
              scoring_signals_fetch |-> "none", finishes |-> 0,
              bid_completed |-> 0, all_bids_done |-> 0,
              reports_at_collation |-> 0]
    /\ get_bids = GetBidsIdle
    /\ decoder = DecoderIdle
    /\ OthersIdle

\* the gRPC server starts the reactor
DoExecute ==
    /\ pc = "New"
    /\ \E enc \in ResponseOutcomes : Becomes(Execute(State, enc))

\* the loop of Execute handles the next buyer of buyer_list
DoFetchBid ==
    /\ fetch_idx \in 1..Len(request.buyer_list)
    /\ LET buyer == request.buyer_list[fetch_idx]
           outcomes == IF buyer \in DOMAIN buyer_inputs_
                       THEN FetchBidOutcomes(buyer_inputs_[buyer])
                       ELSE {NoCall}
       IN  \E outcome \in outcomes, enc \in ResponseOutcomes :
               Becomes(ExecuteLoop(State, outcome, enc))

\* the BFE client of a buyer completes its GetBids call
GetBidsDone(buyer) ==
    /\ bfe[buyer].call = "inflight"
    /\ LET response ==
               [ok |-> bfe[buyer].ok,
                bids |-> BidsOf(buyer_inputs_[buyer], bfe[buyer].ig_bid, 1)]
           s == [State EXCEPT !.bfe[buyer].call = "delivered"]
       IN  \E enc \in ResponseOutcomes :
               Becomes(OnFetchBidsDone(s, response, buyer, enc))

\* the scoring-signals provider completes the key-value fetch
ScoringSignalsDone ==
    /\ pc = "AwaitScoringSignals"
    /\ \E result_ok \in BOOLEAN, execute_ok \in BOOLEAN :
           Becomes(OnFetchScoringSignalsDone(
                       [State EXCEPT !.env.scoring_signals_fetch =
                           IF result_ok THEN "ok" ELSE "failed"],
                       result_ok, execute_ok))

\* the Auction client completes the ScoreAds call
ScoreAdsDone ==
    /\ pc = "AwaitScoreAds"
    /\ \E response \in ScoreAdsResponses(scoring.request[1]),
          enc \in ResponseOutcomes :
           Becomes(OnScoreAdsDone(
                       [State EXCEPT !.scoring.response = <<response>>],
                       response, enc))

\* SelectAdReactor::OnCancel does nothing
OnCancel(s) == s

\* the client cancels the RPC: the context reports it, gRPC calls OnCancel
Cancel ==
    /\ pc # "Done"
    /\ ~cancelled
    /\ Becomes(OnCancel([State EXCEPT !.cancelled = TRUE,
                                      !.env.cancel_pc = pc]))

Next ==
    \/ DoExecute
    \/ DoFetchBid
    \/ \E buyer \in Buyers : GetBidsDone(buyer)
    \/ ScoringSignalsDone
    \/ ScoreAdsDone
    \/ Cancel

Spec == Init /\ [][Next]_vars

\* every call the reactor starts completes, and the server runs the reactor
FairSpec ==
    /\ Spec
    /\ WF_vars(DoExecute)
    /\ WF_vars(DoFetchBid)
    /\ \A buyer \in Buyers : WF_vars(GetBidsDone(buyer))
    /\ WF_vars(ScoringSignalsDone)
    /\ WF_vars(ScoreAdsDone)

TypeOK ==
    /\ pc \in {"New", "FanOut", "AwaitScoringSignals", "AwaitScoreAds",
             "Returned", "Done"}
    /\ env.finishes \in 0..1
    /\ cancelled \in BOOLEAN
    /\ bid_stats_.pending \in 0..Len(request.buyer_list)

(* --------------------- actions of the GetBids RPC --------------------- *)
\* the SelectAd reactor while the reactor of a GetBids RPC is observed
SelectAdIdle ==
    /\ request = [ciphertext |-> "ok", seller_signals |-> "s",
                  auction_signals |-> "s", seller |-> SellerOriginDomain,
                  buyer_list |-> <<>>, decode_errors |-> <<>>,
                  generation_id |-> "g", publisher_name |-> "p",
                  buyer_input |-> <<>>]
    /\ pc = "New"
    /\ cancelled = FALSE
    /\ error_accumulator_ = [CLIENT_VISIBLE |-> <<>>, AD_SERVER_VISIBLE |-> <<>>]
    /\ error_ = [code |-> 0, message |-> <<>>]
    /\ buyer_inputs_ = <<>>
    /\ fetch_idx = 0
    /\ bfe = [b \in Buyers |-> NoCall]
    /\ bid_stats_ = InitialBidStats(0)
    /\ shared_buyer_bids_map_ = <<>>
    /\ scoring_signals_ = "null"
    /\ scoring = [calls |-> 0, request |-> <<>>, response |-> <<>>]
    /\ response_ = [auction_result_ciphertext |-> <<>>]
    /\ status = NoStatus
    /\ env = [cancel_pc |-> "", encrypt |-> "none", encode |-> "none",
              scoring_signals_fetch |-> "none", finishes |-> 0,
              bid_completed |-> 0, all_bids_done |-> 0,
              reports_at_collation |-> 0]

select_ad_vars ==
    <<request, pc, cancelled, error_accumulator_, error_, buyer_inputs_,
      fetch_idx, bfe, bid_stats_, shared_buyer_bids_map_, scoring_signals_,
      scoring, response_, status, env>>

BfeInit ==
    /\ SelectAdIdle
    /\ decoder = DecoderIdle
    /\ OthersIdle
    /\ \E req \in GetBidsRequests : get_bids = GetBidsUnaryReactor(req)

\* the gRPC server starts the reactor
Bfe_DoExecute ==
    /\ get_bids.pc = "New"
    /\ get_bids' = Bfe_Execute(get_bids)
    /\ UNCHANGED <<select_ad_vars, decoder, other_vars>>

\* the key-value provider completes the bidding-signals fetch
BiddingSignalsDone ==
    /\ get_bids.pc = "AwaitBiddingSignals"
    /\ get_bids.kv.state = "inflight"
    /\ \E response \in BiddingSignalsResponses, execute_ok \in BOOLEAN :
           get_bids' = OnBiddingSignalsDone(
                           [get_bids EXCEPT !.kv.response = <<response>>],
                           response, execute_ok)
    /\ UNCHANGED <<select_ad_vars, decoder, other_vars>>

\* the Bidding client completes the GenerateBids call
GenerateBidsDone ==
    /\ get_bids.pc = "AwaitGenerateBids"
    /\ get_bids.bidding.state = "inflight"
    /\ \E raw_response \in
              GenerateBidsResponses(get_bids.raw_request_[1].buyer_input),
          aead_ok \in BOOLEAN :
           get_bids' = OnGenerateBidsDone(
                           [get_bids EXCEPT !.bidding.response = <<raw_response>>],
                           raw_response, aead_ok)
    /\ UNCHANGED <<select_ad_vars, decoder, other_vars>>

\* the client of the GetBids RPC disconnects: the context reports the
\* cancellation; the reactor keeps no handle of its calls and none of its
\* callbacks reads the context
Bfe_Cancel ==
    /\ get_bids.pc # "Done"
    /\ ~get_bids.cancelled
    /\ get_bids' = [get_bids EXCEPT !.cancelled = TRUE,
                                    !.cancel_pc = get_bids.pc]
    /\ UNCHANGED <<select_ad_vars, decoder, other_vars>>

BfeNext ==
    \/ Bfe_DoExecute
    \/ BiddingSignalsDone
    \/ GenerateBidsDone
    \/ Bfe_Cancel

BfeSpec == BfeInit /\ [][BfeNext]_vars

BfeTypeOK ==
    /\ get_bids.pc \in {"New", "AwaitBiddingSignals", "AwaitGenerateBids", "Done"}
    /\ get_bids.kv.state \in {"none", "inflight", "cancelled", "done"}
    /\ get_bids.bidding.state \in
           {"none", "inflight", "not_started", "cancelled", "done"}
    /\ get_bids.cancelled \in BOOLEAN

(* ------------------- actions of decoding buyer inputs ------------------- *)
reactor_vars ==
    <<request, pc, cancelled, error_accumulator_, error_, buyer_inputs_,
      fetch_idx, bfe, bid_stats_, shared_buyer_bids_map_, scoring_signals_,
      scoring, response_, status, env, get_bids>>

DecodeInit ==
    /\ SelectAdIdle
    /\ get_bids = GetBidsIdle
    /\ OthersIdle
    /\ \E encoded_buyer_inputs \in EncodedBuyerInputsSet, fail_fast \in BOOLEAN :
           decoder = Decoder(encoded_buyer_inputs, fail_fast)

\* GetDecodedBuyerinputs: the buyer inputs are decoded into the accumulator
Decode_DoDecode ==
    /\ decoder.pc = "New"
    /\ \E out_of_bounds \in OutOfBoundsReads :
           LET acc == DecodeBuyerInputs(decoder.encoded_buyer_inputs, 1,
                                        decoder.error_accumulator,
                                        decoder.fail_fast, out_of_bounds)
           IN  decoder' = [decoder EXCEPT
                             !.error_accumulator = acc,
                             !.pc = IF acc.crashed THEN "Crashed"
                                    ELSE "Decoded"]
    /\ UNCHANGED <<reactor_vars, other_vars>>

\* GetAccumulatedErrorString: the message the client is sent
Decode_GetAccumulatedErrorString ==
    /\ decoder.pc = "Decoded"
    /\ decoder' = [decoder EXCEPT
                     !.message = StrJoin(decoder.error_accumulator.errors,
                                         kErrorDelimiter),
                     !.proceeds = Decode_Execute(decoder.error_accumulator),
                     !.pc = "Done"]
    /\ UNCHANGED <<reactor_vars, other_vars>>

DecodeNext ==
    \/ Decode_DoDecode
    \/ Decode_GetAccumulatedErrorString

DecodeSpec == DecodeInit /\ [][DecodeNext]_vars

DecodeTypeOK ==
    /\ decoder.pc \in {"New", "Decoded", "Crashed", "Done"}
    /\ decoder.fail_fast \in BOOLEAN
    /\ decoder.error_accumulator.crashed \in BOOLEAN
    /\ Len(decoder.error_accumulator.errors) \in Nat


(* -------------------- actions of the ScoreAds RPC -------------------- *)
\* the reactors of the other services while a ScoreAds RPC is observed
AuctionInit ==
    /\ SelectAdIdle
    /\ get_bids = GetBidsIdle
    /\ MoreIdle
    /\ decoder = DecoderIdle
    /\ debug_report = DebugReportIdle
    /\ timeouts = TimeoutsIdle
    /\ fan_out = FanOutIdle
    /\ \E raw_request \in ScoreAdsRawRequests :
           score_ads = ScoreAdsReactor(raw_request)

\* the gRPC server starts the reactor
ScoreAds_DoExecute ==
    /\ score_ads.pc = "New"
    /\ score_ads' = ScoreAds_Execute(score_ads)
    /\ UNCHANGED <<reactor_vars, decoder, debug_report, timeouts, fan_out, more_vars>>

\* the dispatcher reports the batch
ScoreAds_BatchDone ==
    /\ score_ads.pc = "Dispatching"
    /\ \E dispatch_ok \in BOOLEAN,
          desirability \in [DOMAIN score_ads.dispatch_requests -> Desirabilities] :
           score_ads' = ScoreAdsCallback(score_ads, dispatch_ok, desirability)
    /\ UNCHANGED <<reactor_vars, decoder, debug_report, timeouts, fan_out, more_vars>>

AuctionNext ==
    \/ ScoreAds_DoExecute
    \/ ScoreAds_BatchDone

AuctionSpec == AuctionInit /\ [][AuctionNext]_vars

AuctionTypeOK ==
    /\ score_ads.pc \in {"New", "Dispatching", "Done"}
    /\ score_ads.dispatches \in 0..1
    /\ Len(score_ads.dispatch_requests) <= Len(score_ads.raw_request_.ad_bids)


(* ------------------- actions of one debug report ------------------- *)
ReportingInit ==
    /\ SelectAdIdle
    /\ get_bids = GetBidsIdle
    /\ MoreIdle
    /\ decoder = DecoderIdle
    /\ score_ads = ScoreAdsIdle
    /\ timeouts = TimeoutsIdle
    /\ fan_out = FanOutIdle
    /\ \E url \in DebugUrls, post_auction_signals \in PostAuctionSignalsSet :
           debug_report = DebugReport(url, "a", post_auction_signals)

\* the placeholder data of the interest group is derived from the signals
Reporting_GetPlaceholderData ==
    /\ debug_report.pc = "New"
    /\ debug_report' =
           [debug_report EXCEPT
              !.pc = "Placeholder",
              !.placeholder_data =
                  GetPlaceholderDataForInterestGroup(
                      debug_report.interest_group_owner,
                      debug_report.interest_group_name,
                      debug_report.post_auction_signals)]
    /\ UNCHANGED <<reactor_vars, decoder, score_ads, timeouts, fan_out, more_vars>>

\* the URL is filled in and handed to the reporter
Reporting_CreateHttpRequest ==
    /\ debug_report.pc = "Placeholder"
    /\ debug_report' =
           [debug_report EXCEPT
              !.pc = "Sent",
              !.http_request =
                  CreateDebugReportingHttpRequest(
                      debug_report.url, debug_report.placeholder_data)]
    /\ UNCHANGED <<reactor_vars, decoder, score_ads, timeouts, fan_out, more_vars>>

ReportingNext ==
    \/ Reporting_GetPlaceholderData
    \/ Reporting_CreateHttpRequest

ReportingSpec == ReportingInit /\ [][ReportingNext]_vars

ReportingTypeOK ==
    /\ debug_report.pc \in {"New", "Placeholder", "Sent"}
    /\ debug_report.placeholder_data.rejection_reason \in SellerRejectionReasons
    /\ Len(debug_report.http_request.url) \in {0, Len(debug_report.url)}


(* ----------------- actions of the calls down the chain ----------------- *)
TimeoutsInit ==
    /\ SelectAdIdle
    /\ get_bids = GetBidsIdle
    /\ MoreIdle
    /\ decoder = DecoderIdle
    /\ score_ads = ScoreAdsIdle
    /\ debug_report = DebugReportIdle
    /\ fan_out = FanOutIdle
    /\ \E config \in TimeoutConfigs : timeouts = Timeouts(config)

\* the SFE calls GetBids of a buyer
Timeouts_FetchBid ==
    /\ timeouts.pc = "SelectAd"
    /\ timeouts' = [timeouts EXCEPT
                      !.pc = "GetBids",
                      !.get_bids_timeout = GetBidsTimeout(timeouts.config)]
    /\ UNCHANGED <<reactor_vars, decoder, score_ads, debug_report, fan_out, more_vars>>

\* the BFE calls GenerateBids
Timeouts_GenerateBids ==
    /\ timeouts.pc = "GetBids"
    /\ timeouts' = [timeouts EXCEPT
                      !.pc = "GenerateBids",
                      !.generate_bids_timeout =
                          GenerateBidsTimeout(timeouts.config)]
    /\ UNCHANGED <<reactor_vars, decoder, score_ads, debug_report, fan_out, more_vars>>

\* the Bidding service dispatches generateBid
Timeouts_Dispatch ==
    /\ timeouts.pc = "GenerateBids"
    /\ timeouts' = [timeouts EXCEPT
                      !.pc = "Dispatched",
                      !.dispatch_timeout = DispatchTimeout(timeouts.config)]
    /\ UNCHANGED <<reactor_vars, decoder, score_ads, debug_report, fan_out, more_vars>>

TimeoutsNext ==
    \/ Timeouts_FetchBid
    \/ Timeouts_GenerateBids
    \/ Timeouts_Dispatch

TimeoutsSpec == TimeoutsInit /\ [][TimeoutsNext]_vars

TimeoutsTypeOK ==
    /\ timeouts.pc \in {"SelectAd", "GetBids", "GenerateBids", "Dispatched"}
    /\ timeouts.get_bids_timeout \in 0..MaxTimeoutMs
    /\ timeouts.generate_bids_timeout \in 0..MaxTimeoutMs
    /\ timeouts.dispatch_timeout \in 0..MaxTimeoutMs


(* ---------------------- actions of the fan-out ---------------------- *)
FanOutInit ==
    /\ SelectAdIdle
    /\ get_bids = GetBidsIdle
    /\ MoreIdle
    /\ decoder = DecoderIdle
    /\ score_ads = ScoreAdsIdle
    /\ debug_report = DebugReportIdle
    /\ timeouts = TimeoutsIdle
    /\ \E buyer_list \in FanOutBuyerLists,
          buyer_inputs \in SUBSET Buyers, clients \in SUBSET Buyers :
           fan_out = FanOut(buyer_list, buyer_inputs, clients)

\* Execute handles the next entry of buyer_list
FanOut_DoExecuteLoop ==
    /\ fan_out.thread[0].pc = "Idle"
    /\ fan_out.idx \in DOMAIN fan_out.buyer_list
    /\ \E execute_ok \in BOOLEAN :
           fan_out' = FanOut_ExecuteLoop(fan_out, execute_ok)
    /\ UNCHANGED <<reactor_vars, decoder, score_ads, debug_report, timeouts, more_vars>>

\* the BFE client runs the callback of a call that was started
FanOut_GetBidsDone(i) ==
    /\ i \in DOMAIN fan_out.call
    /\ fan_out.call[i] = "inflight"
    /\ fan_out.thread[i].pc = "Idle"
    /\ \E completed_bid_state \in {"SUCCESS", "EMPTY_RESPONSE", "ERROR"} :
           fan_out' = FanOut_OnFetchBidsDone(fan_out, i, completed_bid_state)
    /\ UNCHANGED <<reactor_vars, decoder, score_ads, debug_report, timeouts, more_vars>>

\* a thread inside BidCompleted takes its next step
FanOut_Lock(t) ==
    /\ t \in DOMAIN fan_out.thread
    /\ fan_out.thread[t].pc = "Lock"
    /\ fan_out' = MutexLock(fan_out, t)
    /\ fan_out' # fan_out
    /\ UNCHANGED <<reactor_vars, decoder, score_ads, debug_report, timeouts, more_vars>>

FanOut_SingleBidDone(t) ==
    /\ t \in DOMAIN fan_out.thread
    /\ fan_out.thread[t].pc = "Held"
    /\ fan_out' = OnSingleBidDone(fan_out, t)
    /\ UNCHANGED <<reactor_vars, decoder, score_ads, debug_report, timeouts, more_vars>>

FanOut_CountBid(t) ==
    /\ t \in DOMAIN fan_out.thread
    /\ fan_out.thread[t].pc = "Counting"
    /\ fan_out' = CountBid(fan_out, t)
    /\ UNCHANGED <<reactor_vars, decoder, score_ads, debug_report, timeouts, more_vars>>

FanOut_AllBidsDone(t) ==
    /\ t \in DOMAIN fan_out.thread
    /\ fan_out.thread[t].pc = "Collating"
    /\ fan_out' = FanOut_OnAllBidsDone(fan_out, t)
    /\ UNCHANGED <<reactor_vars, decoder, score_ads, debug_report, timeouts, more_vars>>

FanOut_Unlock(t) ==
    /\ t \in DOMAIN fan_out.thread
    /\ fan_out.thread[t].pc = "Unlock"
    /\ fan_out' = MutexUnlock(fan_out, t)
    /\ UNCHANGED <<reactor_vars, decoder, score_ads, debug_report, timeouts, more_vars>>

\* the callbacks that follow the collation
FanOut_ScoringSignalsDone ==
    /\ fan_out.reader = "AwaitScoringSignals"
    /\ fan_out' = FanOut_OnFetchScoringSignalsDone(fan_out)
    /\ UNCHANGED <<reactor_vars, decoder, score_ads, debug_report, timeouts, more_vars>>

FanOut_ScoreAdsDone ==
    /\ fan_out.reader = "AwaitScoreAds"
    /\ fan_out' = FanOut_OnScoreAdsDone(fan_out)
    /\ UNCHANGED <<reactor_vars, decoder, score_ads, debug_report, timeouts, more_vars>>

FanOutNext ==
    \/ FanOut_DoExecuteLoop
    \/ \E i \in 1..MaxFanOut : FanOut_GetBidsDone(i)
    \/ \E t \in 0..MaxFanOut : FanOut_Lock(t)
    \/ \E t \in 0..MaxFanOut : FanOut_SingleBidDone(t)
    \/ \E t \in 0..MaxFanOut : FanOut_CountBid(t)
    \/ \E t \in 0..MaxFanOut : FanOut_AllBidsDone(t)
    \/ \E t \in 0..MaxFanOut : FanOut_Unlock(t)
    \/ FanOut_ScoringSignalsDone
    \/ FanOut_ScoreAdsDone

FanOutSpec == FanOutInit /\ [][FanOutNext]_vars

FanOutTypeOK ==
    /\ fan_out.idx \in 1..(Len(fan_out.buyer_list) + 1)
    /\ fan_out.mu_ \in {NoThread} \cup DOMAIN fan_out.thread
    /\ fan_out.pending \in 0..Len(fan_out.buyer_list)
    /\ fan_out.shared_buyer_bids_map_ \subseteq Buyers
    /\ \A t \in DOMAIN fan_out.thread :
           fan_out.thread[t].pc \in
               {"Idle", "Lock", "Held", "Counting", "Collating", "Unlock", "Done"}


(* ------------- actions of the reactor object's lifetime ------------- *)
LifetimeInit ==
    /\ SelectAdIdle
    /\ get_bids = GetBidsIdle
    /\ decoder = DecoderIdle
    /\ score_ads = ScoreAdsIdle
    /\ debug_report = DebugReportIdle
    /\ timeouts = TimeoutsIdle
    /\ fan_out = FanOutIdle
    /\ js_report = JsReportIdle
    /\ ad_metadata = AdMetadataIdle
    /\ post_auction = PostAuctionIdle
    /\ \E urls \in 0..MaxDebugReports, enc \in LifetimeOutcomes :
           lifetime = Lifetime(urls, enc)

\* the ScoreAds callback starts the debug reports
Lifetime_DoPerformDebugReporting ==
    /\ lifetime.pc = "AwaitScoreAds"
    /\ lifetime' = Lifetime_PerformDebugReporting(lifetime)
    /\ UNCHANGED <<reactor_vars, decoder, score_ads, debug_report, timeouts,
                   fan_out, js_report, ad_metadata, post_auction>>

\* and goes on to build the response and finish the RPC
Lifetime_DoFinish ==
    /\ lifetime.pc = "Reported"
    /\ lifetime' = Lifetime_Finish(lifetime)
    /\ lifetime' # lifetime
    /\ UNCHANGED <<reactor_vars, decoder, score_ads, debug_report, timeouts,
                   fan_out, js_report, ad_metadata, post_auction>>

\* gRPC calls OnDone of a finished RPC
Lifetime_DoOnDone ==
    /\ lifetime.pc = "Finished"
    /\ lifetime' = Lifetime_OnDone(lifetime)
    /\ UNCHANGED <<reactor_vars, decoder, score_ads, debug_report, timeouts,
                   fan_out, js_report, ad_metadata, post_auction>>

\* the reporting client completes a report, at any time after DoReport
Lifetime_ReportDone(i) ==
    /\ i \in DOMAIN lifetime.reports
    /\ lifetime.reports[i] = "inflight"
    /\ ~lifetime.crashed
    /\ \E ok \in BOOLEAN, crashes \in BOOLEAN :
           lifetime' = Lifetime_done_cb(lifetime, i, ok, crashes)
    /\ UNCHANGED <<reactor_vars, decoder, score_ads, debug_report, timeouts,
                   fan_out, js_report, ad_metadata, post_auction>>

LifetimeNext ==
    \/ Lifetime_DoPerformDebugReporting
    \/ Lifetime_DoFinish
    \/ Lifetime_DoOnDone
    \/ \E i \in 1..MaxDebugReports : Lifetime_ReportDone(i)

LifetimeSpec == LifetimeInit /\ [][LifetimeNext]_vars

\* the reactor's own steps are taken; nothing is assumed of the reports
LifetimeFairSpec ==
    /\ LifetimeSpec
    /\ WF_vars(Lifetime_DoPerformDebugReporting)
    /\ WF_vars(Lifetime_DoFinish)
    /\ WF_vars(Lifetime_DoOnDone)

LifetimeTypeOK ==
    /\ lifetime.pc \in {"AwaitScoreAds", "Reported", "Finished", "Returned",
                        "Destroyed"}
    /\ lifetime.alive \in BOOLEAN
    /\ lifetime.logged + lifetime.use_after_free <= lifetime.urls


(* ------------- actions of the reporting entry function ------------- *)
JsReportInit ==
    /\ SelectAdIdle
    /\ get_bids = GetBidsIdle
    /\ decoder = DecoderIdle
    /\ score_ads = ScoreAdsIdle
    /\ debug_report = DebugReportIdle
    /\ timeouts = TimeoutsIdle
    /\ fan_out = FanOutIdle
    /\ lifetime = LifetimeIdle
    /\ ad_metadata = AdMetadataIdle
    /\ post_auction = PostAuctionIdle
    /\ \E enableReportWinUrlGeneration \in BOOLEAN :
           js_report = JsReport(enableReportWinUrlGeneration)

JsReport_ReportResultCalls ==
    /\ js_report.pc = "reportResult"
    /\ js_report.calls < MaxJsCalls
    /\ \E function \in {"sendReportTo", "registerAdBeacon"},
          argument \in JsArguments :
           js_report' = Js_reportResult_Call(js_report, function, argument)
    /\ UNCHANGED <<reactor_vars, decoder, score_ads, debug_report, timeouts,
                   fan_out, lifetime, ad_metadata, post_auction>>

JsReport_ReportResultReturns ==
    /\ js_report.pc = "reportResult"
    /\ js_report' = Js_reportResult_Return(js_report)
    /\ UNCHANGED <<reactor_vars, decoder, score_ads, debug_report, timeouts,
                   fan_out, lifetime, ad_metadata, post_auction>>

JsReport_ReportWinCalls ==
    /\ js_report.pc = "reportWin"
    /\ js_report.calls < MaxJsCalls
    /\ \E function \in {"sendReportTo", "registerAdBeacon"},
          argument \in JsArguments :
           js_report' = Js_reportWin_Call(js_report, function, argument)
    /\ UNCHANGED <<reactor_vars, decoder, score_ads, debug_report, timeouts,
                   fan_out, lifetime, ad_metadata, post_auction>>

JsReport_ReportWinReturns ==
    /\ js_report.pc = "reportWin"
    /\ js_report' = Js_reportWin_Return(js_report)
    /\ UNCHANGED <<reactor_vars, decoder, score_ads, debug_report, timeouts,
                   fan_out, lifetime, ad_metadata, post_auction>>

JsReportNext ==
    \/ JsReport_ReportResultCalls
    \/ JsReport_ReportResultReturns
    \/ JsReport_ReportWinCalls
    \/ JsReport_ReportWinReturns

JsReportSpec == JsReportInit /\ [][JsReportNext]_vars

JsReportTypeOK ==
    /\ js_report.pc \in {"reportResult", "reportWin", "Returned", "Thrown"}
    /\ js_report.calls \in 0..MaxJsCalls
    /\ js_report.ps_report_result_response.url \in JsArguments \cup {""}
    /\ js_report.ps_report_win_response.url \in JsArguments \cup {""}


(* ----------------- actions of BuildAdWithBidMetadata ----------------- *)
AdMetadataInit ==
    /\ SelectAdIdle
    /\ get_bids = GetBidsIdle
    /\ decoder = DecoderIdle
    /\ score_ads = ScoreAdsIdle
    /\ debug_report = DebugReportIdle
    /\ timeouts = TimeoutsIdle
    /\ fan_out = FanOutIdle
    /\ lifetime = LifetimeIdle
    /\ js_report = JsReportIdle
    /\ post_auction = PostAuctionIdle
    /\ \E interest_groups \in BuyerInputLists,
          interest_group_name \in BuyerIGNames, client_type \in ClientTypes :
           ad_metadata = AdMetadata([interest_group_name |-> interest_group_name],
                                    interest_groups, client_type)

AdMetadata_Build ==
    /\ ad_metadata.pc = "Start"
    /\ ad_metadata' =
           [ad_metadata EXCEPT
               !.pc = "Built",
               !.result = BuildAdWithBidMetadata_BrowserSignals(
                              ad_metadata.input, ad_metadata.interest_groups,
                              ad_metadata.client_type)]
    /\ UNCHANGED <<reactor_vars, decoder, score_ads, debug_report, timeouts,
                   fan_out, lifetime, js_report, post_auction>>

AdMetadataNext == AdMetadata_Build

AdMetadataSpec == AdMetadataInit /\ [][AdMetadataNext]_vars

AdMetadataTypeOK ==
    /\ ad_metadata.pc \in {"Start", "Built"}
    /\ ad_metadata.result.join_count \in 0..2
    /\ ad_metadata.result.recency \in {0, 3, 4}


(* --------------- actions of GeneratePostAuctionSignals --------------- *)
PostAuctionInit ==
    /\ SelectAdIdle
    /\ get_bids = GetBidsIdle
    /\ decoder = DecoderIdle
    /\ score_ads = ScoreAdsIdle
    /\ debug_report = DebugReportIdle
    /\ timeouts = TimeoutsIdle
    /\ fan_out = FanOutIdle
    /\ lifetime = LifetimeIdle
    /\ js_report = JsReportIdle
    /\ ad_metadata = AdMetadataIdle
    /\ \E winning_ad_score \in WinningAdScores \cup {NoAdScore} :
           post_auction = PostAuction(winning_ad_score)

\* PerformDebugReporting computes the signals of the auction
PostAuction_GenerateSignals ==
    /\ post_auction.pc = "Start"
    /\ LET score == post_auction.winning_ad_score
           entries == IF score.has_value
                      THEN DOMAIN score.ig_owner_highest_scoring_other_bids_map
                      ELSE {}
       IN  \E begin \in (IF entries = {} THEN {""} ELSE entries),
              indeterminate \in BOOLEAN :
               post_auction' =
                   [post_auction EXCEPT
                       !.pc = "Signals",
                       !.post_auction_signals =
                           GeneratePostAuctionSignals(score, begin,
                                                      indeterminate)]
    /\ UNCHANGED <<reactor_vars, decoder, score_ads, debug_report, timeouts,
                   fan_out, lifetime, js_report, ad_metadata>>

\* and the placeholder data of one bid's interest group
PostAuction_GetPlaceholderData ==
    /\ post_auction.pc = "Signals"
    /\ \E interest_group_owner \in Buyers :
           post_auction' =
               [post_auction EXCEPT
                   !.pc = "Placeholder",
                   !.interest_group_owner = interest_group_owner,
                   !.placeholder_data =
                       GetPlaceholderDataForInterestGroup(
                           interest_group_owner, "x",
                           post_auction.post_auction_signals)]
    /\ UNCHANGED <<reactor_vars, decoder, score_ads, debug_report, timeouts,
                   fan_out, lifetime, js_report, ad_metadata>>

PostAuctionNext ==
    \/ PostAuction_GenerateSignals
    \/ PostAuction_GetPlaceholderData

PostAuctionSpec == PostAuctionInit /\ [][PostAuctionNext]_vars

PostAuctionTypeOK ==
    /\ post_auction.pc \in {"Start", "Signals", "Placeholder"}
    /\ post_auction.post_auction_signals.has_highest_scoring_other_bid
           \in BOOLEAN
    /\ post_auction.placeholder_data.made_highest_scoring_other_bid \in BOOLEAN

(* ------------------------- reading the outcome ------------------------- *)
Done == pc = "Done"

Decrypted == request.ciphertext = "ok" /\ pc # "New"

\* the response carries a sealed AuctionResult
HasResult == response_.auction_result_ciphertext # <<>>

AuctionResultOf == response_.auction_result_ciphertext[1].payload

WinnerKeys ==
    {"bid", "score", "components", "adRenderURL", "biddingGroups",
     "winReportingURLs", "interestGroupName", "interestGroupOwner"}

\* is_chaff of the decoded AuctionResult: false when the key is absent
DecodedIsChaff(r) == "isChaff" \in DOMAIN r /\ r.isChaff

IsWinner(r) ==
    WinnerKeys \subseteq DOMAIN r /\ ~DecodedIsChaff(r) /\ "error" \notin DOMAIN r

IsChaff(r) ==
    DecodedIsChaff(r) /\ DOMAIN r \cap WinnerKeys = {} /\ "error" \notin DOMAIN r

IsError(r) ==
    "error" \in DOMAIN r /\ DOMAIN r \cap WinnerKeys = {} /\ ~DecodedIsChaff(r)

EncryptFailed == env.encrypt \in {"no_key", "seal_error"}

\* the response could not be encoded and the error handler ended the RPC
EncodeFailed == env.encode = "reported"

\* the fan-out ran and every buyer of buyer_list ended in the error state
EveryBuyerErrored == fetch_idx > 0 /\ bid_stats_.error = bid_stats_.initial

\* buyers whose GetBids call was made and failed
FailedBuyers ==
    {b \in Buyers : \/ bfe[b].call = "execute_failed"
                    \/ bfe[b].call = "delivered" /\ ~bfe[b].ok}

\* indices (from 0) of the interest groups of a buyer that produced a bid > 0
PositiveIGs(b) ==
    {i - 1 : i \in {j \in DOMAIN bfe[b].ig_bid : bfe[b].ig_bid[j] > 0}}

\* buyers whose response arrived and holds at least one bid
BuyersWithBids ==
    {b \in Buyers : /\ bfe[b].call = "delivered" /\ bfe[b].ok
                    /\ \E i \in DOMAIN bfe[b].ig_bid : bfe[b].ig_bid[i] # NoBid}

(* ================================ claims =============================== *)

\* no GetBids call succeeded; the scoring-signals fetch and ScoreAds are then
\* never started
AllDependenciesFailed == \A b \in Buyers : ~bfe[b].ok

\* C1 as stated: when every external dependency fails (some GetBids call was
\* made and none succeeded), a decrypted request that the client did not
\* cancel ends with a chaff response or a client-visible error
C1_Original ==
    (Done /\ Decrypted /\ AllDependenciesFailed /\ FailedBuyers # {}
          /\ ~cancelled) =>
        /\ status.code = "OK"
        /\ HasResult
        /\ IsChaff(AuctionResultOf) \/ IsError(AuctionResultOf)

C1_Outcome ==
    \/ /\ status.code = "OK"
       /\ HasResult
       /\ IsChaff(AuctionResultOf) \/ IsError(AuctionResultOf)
    \/ /\ status.code = "INTERNAL"
       /\ ~HasResult
       /\ EveryBuyerErrored \/ EncryptFailed \/ EncodeFailed
    \/ status.code = "ABORTED" /\ cancelled /\ ~HasResult
    \/ /\ status.code = "INVALID_ARGUMENT"
       /\ error_accumulator_.AD_SERVER_VISIBLE # <<>>
       /\ ~HasResult

\* C1 (amended): when every external dependency fails, a decrypted request
\* still terminates: with a chaff response or a client-visible error in an RPC
\* that finishes OK, or with plain INTERNAL (every buyer errored, or the
\* response could not be encoded or sealed), ABORTED (the client cancelled) or
\* INVALID_ARGUMENT (ad-server-visible errors); it never stays unfinished.
C1_Terminates ==
    /\ []((Done /\ Decrypted /\ AllDependenciesFailed) => C1_Outcome)
    /\ <>(Done \/ ~AllDependenciesFailed)

C1_Witness ==
    /\ Done /\ Decrypted /\ AllDependenciesFailed
    /\ EveryBuyerErrored
    /\ \E b \in Buyers : bfe[b].call = "delivered"
    /\ status.code = "INTERNAL"

\* C2: a client cancellation that arrives after the request was decrypted and
\* before the RPC is done ends the RPC with status ABORTED
C2_CancelAborts ==
    (Done /\ env.cancel_pc \in {"FanOut", "AwaitScoringSignals", "AwaitScoreAds"})
        => status.code = "ABORTED"

\* the accumulated client-visible errors reach the client as
\* AuctionResult.error, code 400, in the sealed and padded response of an RPC
\* that finished OK
ClientErrorDelivered ==
    /\ status.code = "OK"
    /\ HasResult
    /\ response_.auction_result_ciphertext[1].padded
    /\ IsError(AuctionResultOf)
    /\ AuctionResultOf.error.code = 400
    /\ AuctionResultOf.error.message = error_accumulator_.CLIENT_VISIBLE

\* C3 as stated: every client-visible error is delivered inside the encrypted
\* response of an RPC that finishes OK
C3_Original ==
    (Done /\ error_accumulator_.CLIENT_VISIBLE # <<>>) => ClientErrorDelivered

\* C3 (amended): every client-visible error is delivered as AuctionResult.error
\* with code 400 inside the encrypted, padded response of an RPC that finishes
\* OK, unless the request also has an ad-server-visible error (INVALID_ARGUMENT
\* with the ad-server errors only) or the response cannot be encoded or sealed
\* (INTERNAL);
\* it is never part of a plain non-OK status, and no other error is put in an
\* AuctionResult.
C3_ClientErrorsInEnvelope ==
    /\ (Done /\ error_accumulator_.CLIENT_VISIBLE # <<>>) =>
          \/ ClientErrorDelivered
          \/ /\ error_accumulator_.AD_SERVER_VISIBLE # <<>>
             /\ status = [code |-> "INVALID_ARGUMENT",
                          message |-> error_accumulator_.AD_SERVER_VISIBLE]
             /\ ~HasResult
          \/ /\ EncryptFailed \/ EncodeFailed
             /\ status = [code |-> "INTERNAL",
                          message |-> <<"kInternalServerError">>]
             /\ ~HasResult
    /\ (HasResult /\ "error" \in DOMAIN AuctionResultOf) => ClientErrorDelivered
    /\ \A m \in Range(status.message) :
           m \notin Range(error_accumulator_.CLIENT_VISIBLE)

C3_Witness ==
    /\ Done
    /\ ClientErrorDelivered
    /\ "kBadEncoding" \in Range(AuctionResultOf.error.message)

\* C4: every AuctionResult produced is in exactly one of the states winner,
\* chaff and error
C4_ExactlyOneState ==
    HasResult =>
        Cardinality({k \in {"winner", "chaff", "error"} :
            \/ k = "winner" /\ IsWinner(AuctionResultOf)
            \/ k = "chaff" /\ IsChaff(AuctionResultOf)
            \/ k = "error" /\ IsError(AuctionResultOf)}) = 1

C4_Witness == Done /\ HasResult /\ IsWinner(AuctionResultOf)

\* the request is well-formed, was never cancelled, not every buyer errored
C5_WellFormedRun ==
    /\ Done /\ Decrypted
    /\ error_accumulator_.CLIENT_VISIBLE = <<>>
    /\ error_accumulator_.AD_SERVER_VISIBLE = <<>>
    /\ ~cancelled
    /\ ~EveryBuyerErrored

\* no buyer returned a bid greater than 0, or ScoreAds returned no ad score
\* with a buyer_bid greater than 0
C5_NoPositiveBid ==
    \/ \A b \in Buyers : bfe[b].ok => PositiveIGs(b) = {}
    \/ /\ scoring.response # <<>>
       /\ scoring.response[1].ok
       /\ \/ scoring.response[1].ad_score = <<>>
          \/ scoring.response[1].ad_score[1].buyer_bid <= 0

C5_ChaffOK ==
    /\ status.code = "OK"
    /\ HasResult
    /\ IsChaff(AuctionResultOf)

C6_AllBuyersErroredInternal ==
    (EveryBuyerErrored /\ ~cancelled) =>
        /\ Done
        /\ status = [code |-> "INTERNAL", message |-> <<"kInternalServerError">>]
        /\ ~HasResult
        /\ scoring.calls = 0

C6_Witness ==
    /\ EveryBuyerErrored /\ ~cancelled
    /\ bid_stats_.initial = 2
    /\ bfe["a"].call = "delivered"
    /\ bfe["b"].call = "execute_failed"
    /\ status.code = "INTERNAL"

\* the fan-out has collated, one buyer returned a positive bid and another
\* buyer failed
C7_PartialFailure ==
    /\ fetch_idx > 0
    /\ bid_stats_.pending = 0
    /\ \E b \in BuyersWithBids : PositiveIGs(b) # {}
    /\ FailedBuyers # {}

\* the bids a ScoreAds request must hold, as <<buyer, interest group>>: the
\* bids of the buyers whose response arrived with bids
C7_BidsOfSuccessfulBuyers ==
    {<<b, i>> \in BuyersWithBids \X (1..(MaxIGs + MaxOtherIGs)) :
        i \in DOMAIN bfe[b].ig_bid /\ bfe[b].ig_bid[i] # NoBid}

C7_Proceeds ==
    /\ pc \in {"AwaitScoringSignals", "AwaitScoreAds", "Returned", "Done"}
    /\ pc \in {"AwaitScoreAds", "Returned", "Done"} => scoring.calls = 1
    /\ scoring.calls = 1 =>
          /\ Range(scoring.request[1].ad_bids) =
                {[bid |-> bfe[p[1]].ig_bid[p[2]],
                  interest_group_name |-> buyer_inputs_[p[1]][p[2]].name,
                  interest_group_owner |-> p[1]] :
                    p \in C7_BidsOfSuccessfulBuyers}
          /\ Len(scoring.request[1].ad_bids) =
                Cardinality(C7_BidsOfSuccessfulBuyers)
          /\ \A ad \in Range(scoring.request[1].ad_bids) :
                ad.interest_group_owner \notin FailedBuyers
    /\ (HasResult /\ "biddingGroups" \in DOMAIN AuctionResultOf) =>
          DOMAIN AuctionResultOf.biddingGroups \cap FailedBuyers = {}

\* C7 as stated: with one positive bid and other buyers failing, the auction
\* proceeds to ScoreAds with the successful buyers' bids only
C7_Original == C7_PartialFailure => C7_Proceeds

\* C7 (amended): ... provided the client has not cancelled the request by the
\* time the fan-out collates, the auction still proceeds to ScoreAds ...
C7_ProceedsUnlessCancelled ==
    (C7_PartialFailure /\ env.cancel_pc \notin {"New", "FanOut"}) => C7_Proceeds

C7_Witness ==
    /\ C7_PartialFailure
    /\ Done
    /\ scoring.calls = 1
    /\ HasResult
    /\ IsWinner(AuctionResultOf)
    /\ DOMAIN AuctionResultOf.biddingGroups = {"a"}
    /\ bfe["b"].call = "delivered"

HasBiddingGroups == HasResult /\ "biddingGroups" \in DOMAIN AuctionResultOf

\* bidding_groups of the decoded AuctionResult: empty when the key is absent
BiddingGroupsOf ==
    IF HasBiddingGroups THEN AuctionResultOf.biddingGroups ELSE <<>>

IsStrictlyIncreasing(seq) ==
    \A i, j \in DOMAIN seq : i < j => seq[i] < seq[j]

\* C8: for every owner in bidding_groups the index list is exactly the set of
\* the indices of that buyer's interest groups that produced a bid greater
\* than 0, each within 0..|IGs|-1, also when interest groups share a name
C8_BiddingGroupsFidelity ==
    HasResult =>
        \A owner \in DOMAIN BiddingGroupsOf :
            /\ Range(BiddingGroupsOf[owner]) = PositiveIGs(owner)
            /\ Range(BiddingGroupsOf[owner])
                   \subseteq 0..(Len(buyer_inputs_[owner]) - 1)

\* C9: bidding_groups has an entry for a buyer only if one of that buyer's
\* interest groups produced a strictly positive bid, and it is empty when no
\* bid is positive
C9_OnlyPositiveBidders ==
    HasResult =>
        \A owner \in DOMAIN BiddingGroupsOf : PositiveIGs(owner) # {}

\* the interest groups of a buyer whose name carries a positive bid in the
\* buyer's response
C10_NamedByPositiveBid(b) ==
    {i - 1 : i \in {j \in DOMAIN buyer_inputs_[b] :
        \E k \in DOMAIN bfe[b].ig_bid :
            /\ bfe[b].ig_bid[k] > 0
            /\ buyer_inputs_[b][k].name = buyer_inputs_[b][j].name}}

\* C10: the bidding_groups of the result is determined by the request and the
\* buyers' responses alone, whatever the order the responses arrived in, and
\* its indices follow the interest-group order of the BuyerInput
C10_ArrivalOrderIndependent ==
    (Done /\ HasBiddingGroups) =>
        /\ DOMAIN BiddingGroupsOf = BuyersWithBids
        /\ \A b \in DOMAIN BiddingGroupsOf :
              /\ IsStrictlyIncreasing(BiddingGroupsOf[b])
              /\ Range(BiddingGroupsOf[b]) = C10_NamedByPositiveBid(b)

\* both buyers bid, the response of the second buyer of buyer_list arrived
\* first
C10_Witness ==
    /\ Done /\ HasBiddingGroups
    /\ request.buyer_list = <<"a", "b">>
    /\ Len(shared_buyer_bids_map_) = 2
    /\ shared_buyer_bids_map_[1].buyer = "b"
    /\ Len(BiddingGroupsOf["a"]) = 2
    /\ Len(BiddingGroupsOf["b"]) = 1

\* length in bytes of the framed plaintext sealed into the response
FramedSizeOf == response_.auction_result_ciphertext[1].size

IsPowerOfTwo(n) == \E k \in 0..20 : n = 2 ^ k

\* C11: every RPC that finishes OK, with a winner, a chaff or a client-visible
\* error, seals a framed plaintext whose length is a power of two and at
\* least the 256-byte floor
C11_PaddedToPowerOfTwo ==
    (Done /\ status.code = "OK") =>
        /\ HasResult
        /\ IsPowerOfTwo(FramedSizeOf)
        /\ FramedSizeOf >= kMinAuctionResultBytes

\* a winner whose frame is longer than the floor
C11_Witness ==
    /\ Done /\ status.code = "OK" /\ HasResult
    /\ IsWinner(AuctionResultOf)
    /\ FramedSizeOf > kMinAuctionResultBytes
    /\ IsPowerOfTwo(FramedSizeOf)

\* the ads of the ScoreAds request, none when ScoreAds was not invoked
ScoreAdsAdBids ==
    IF scoring.calls > 0 THEN Range(scoring.request[1].ad_bids) ELSE {}

\* C12: every ad of the ScoreAds request is owned by an entry of buyer_list
\* whose GetBids call returned that bid: the call was made for that entry and
\* its response holds a bid of that value for that interest group
C12_OwnerIsTheBiddingBuyer ==
    \A ad \in ScoreAdsAdBids :
        /\ ad.interest_group_owner \in Range(request.buyer_list)
        /\ bfe[ad.interest_group_owner].call = "delivered"
        /\ bfe[ad.interest_group_owner].ok
        /\ \E i \in DOMAIN bfe[ad.interest_group_owner].ig_bid :
              /\ bfe[ad.interest_group_owner].ig_bid[i] = ad.bid
              /\ buyer_inputs_[ad.interest_group_owner][i].name =
                     ad.interest_group_name

\* both buyers bid on the same interest-group name with different values, and
\* the client's payload names both buyers
C12_Witness ==
    /\ scoring.calls = 1
    /\ DOMAIN request.buyer_input = {"a", "b"}
    /\ \E ad1, ad2 \in ScoreAdsAdBids :
          /\ ad1.interest_group_owner = "a" /\ ad1.bid = 0
          /\ ad2.interest_group_owner = "b" /\ ad2.bid = 1
          /\ ad1.interest_group_name = ad2.interest_group_name

\* the auction config of the request has a defect the ad server can see
HasAdServerVisibleDefect ==
    \/ request.seller # SellerOriginDomain
    \/ request.auction_signals = ""
    \/ request.seller_signals = ""
    \/ request.buyer_list = <<>>

\* C13: once Execute ran on a request whose auction config has an
\* ad-server-visible defect, the RPC is finished with plain INVALID_ARGUMENT
\* carrying the ad-server-visible errors only, there is no AuctionResult, also
\* when the payload has client-visible errors, and no GetBids or ScoreAds call
\* was issued
C13_AdServerErrorsInvalidArgument ==
    (pc # "New" /\ HasAdServerVisibleDefect) =>
        /\ Done
        /\ status.code = "INVALID_ARGUMENT"
        /\ status.message = error_accumulator_.AD_SERVER_VISIBLE
        /\ status.message # <<>>
        /\ Range(status.message) \cap Range(error_accumulator_.CLIENT_VISIBLE) = {}
        /\ ~HasResult
        /\ \A b \in Buyers : bfe[b].call = "none"
        /\ scoring.calls = 0

\* a wrong seller domain in a request whose payload also failed to decode
C13_Witness ==
    /\ Done
    /\ request.seller # SellerOriginDomain
    /\ request.buyer_list # <<>>
    /\ error_accumulator_.CLIENT_VISIBLE # <<>>
    /\ status.code = "INVALID_ARGUMENT"

\* Execute ran and DecryptRequest rejected the envelope of the request
DecryptFailed == request.ciphertext # "ok" /\ pc # "New"

\* C14 as stated: a request envelope that cannot be decrypted is answered with
\* AuctionResult.error of code 400 inside an encrypted response
C14_Original ==
    DecryptFailed =>
        /\ HasResult
        /\ IsError(AuctionResultOf)
        /\ AuctionResultOf.error.code = CLIENT_SIDE

\* C14 (amended): a request envelope that cannot be decrypted is answered with
\* plain INVALID_ARGUMENT: nothing is sealed, no AuctionResult exists, no error
\* is accumulated and no GetBids or ScoreAds call is made
C14_DecryptFailureIsPlainStatus ==
    DecryptFailed =>
        /\ Done
        /\ status.code = "INVALID_ARGUMENT"
        /\ ~HasResult
        /\ env.encrypt = "none"
        /\ ~HasErrors(State)
        /\ \A b \in Buyers : bfe[b].call = "none"
        /\ scoring.calls = 0

\* the key id is known and the ciphertext does not open
C14_Witness ==
    /\ Done
    /\ request.ciphertext = "malformed_aead"
    /\ status.code = "INVALID_ARGUMENT"
    /\ ~HasResult

\* the constant string the SFE answers a kind of envelope failure with
EnvelopeErrorString(ciphertext) ==
    IF ciphertext = "empty" THEN "kEmptyProtectedAuctionCiphertextError"
    ELSE IF ciphertext = "bad_key_id" THEN "kInvalidOhttpKeyIdError"
    ELSE IF ciphertext = "no_private_key" THEN "kMissingPrivateKey"
    ELSE "kMalformedEncapsulatedRequest"

\* C15: an envelope failure finishes the RPC with INVALID_ARGUMENT and a
\* message that is one constant string of a fixed set, with nothing of the
\* underlying decryption error in it
C15_FixedEnvelopeErrorStrings ==
    DecryptFailed =>
        /\ status.code = "INVALID_ARGUMENT"
        /\ status.message = <<EnvelopeErrorString(request.ciphertext)>>

\* ScoreAds was invoked and the call could not be started
ScoreAdsNotStarted == scoring.calls > 0 /\ Done /\ scoring.response = <<>>

\* the callback of the ScoreAds call delivered a status that is not OK
ScoreAdsCallbackFailed ==
    scoring.calls > 0 /\ scoring.response # <<>> /\ ~scoring.response[1].ok

\* C16: when the ScoreAds call cannot be started or its callback delivers a
\* status that is not OK, whatever its code, the RPC finishes with INTERNAL
C16_ScoreAdsFailureIsInternal ==
    (ScoreAdsNotStarted \/ ScoreAdsCallbackFailed) =>
        Done /\ status.code = "INTERNAL"

\* the scoring-signals fetch was answered with a failure
ScoringSignalsFetchFailed == env.scoring_signals_fetch = "failed"

BiddingSignalsFetchFailed ==
    get_bids.kv.response # <<>> /\ ~get_bids.kv.response[1].ok

\* C18: when the bidding-signals fetch fails, GenerateBids is still called,
\* with empty bidding signals, and the GetBids RPC is not failed by the fetch
C18_BiddingCalledWithoutSignals ==
    BiddingSignalsFetchFailed =>
        /\ get_bids.bidding.calls = 1
        /\ get_bids.bidding.request[1].bidding_signals = ""
        /\ get_bids.status.code # get_bids.kv.response[1].code

\* C19: once the client of a GetBids RPC has disconnected, no key-value fetch
\* and no GenerateBids call of the reactor is left in flight without having
\* been told to cancel, and no call is started after the disconnect
C19_CancelReachesCallsInFlight ==
    get_bids.cancelled =>
        /\ get_bids.kv.state # "inflight"
        /\ get_bids.bidding.state # "inflight"
        /\ get_bids.cancel_pc = "AwaitBiddingSignals" =>
               get_bids.bidding.calls = 0

\* the defects of a prevWins entry, each by the error the decoder has for it
DefectsOfPrevWin(prev_win, owner) ==
    IF prev_win.type # kArray
    THEN {kInvalidTypeError("prevWins[x]", kArray, prev_win.type)}
    ELSE (IF Len(prev_win.items) # 2
          THEN {kPrevWinsNotCorrectLengthError(owner)} ELSE {})
         \cup
         (IF Len(prev_win.items) >= 1
             /\ prev_win.items[1] # kCborTypePositiveInt
          THEN {kInvalidTypeError("prevWin[0]", kInt, prev_win.items[1])}
          ELSE {})
         \cup
         (IF Len(prev_win.items) >= 2 /\ prev_win.items[2] # kString
          THEN {kInvalidTypeError("prevWin[1]", kString, prev_win.items[2])}
          ELSE {})

DefectsOfBrowserSignals(root, owner) ==
    IF root.type # kMap
    THEN {kInvalidTypeError("browserSignals", kMap, root.type)}
    ELSE (IF root.bid_count # kCborTypePositiveInt
          THEN {kInvalidTypeError("browserSignals.bidCount", kInt,
                                  root.bid_count)}
          ELSE {})
         \cup
         UNION {DefectsOfPrevWin(root.prev_wins[i], owner) :
                    i \in DOMAIN root.prev_wins}

DefectsOfInterestGroup(interest_group) ==
    IF interest_group.type # kMap
    THEN {kInvalidTypeError("interestGroups[x]", kMap, interest_group.type)}
    ELSE (IF interest_group.name # kString
          THEN {kInvalidTypeError("interestGroups[x].name", kString,
                                  interest_group.name)}
          ELSE {})
         \cup DefectsOfBrowserSignals(interest_group.browser_signals,
                                      "biddingSignalsKeys[x]")

DefectsOfBuyerInput(owner, compressed_buyer_input) ==
    IF ~compressed_buyer_input.gzip_ok
    THEN {kMalformedCompressedIgError(owner)}
    ELSE IF ~compressed_buyer_input.cbor_ok
    THEN {kInvalidBuyerInputCborError(owner)}
    ELSE IF compressed_buyer_input.type # kArray
    THEN {kInvalidTypeError("BuyerInput", kArray, compressed_buyer_input.type)}
    ELSE UNION {DefectsOfInterestGroup(
                    compressed_buyer_input.interest_groups[i]) :
                    i \in DOMAIN compressed_buyer_input.interest_groups}

\* every defect of the buyer inputs handed to the decoder
DefectsOfBuyerInputs(encoded_buyer_inputs) ==
    UNION {DefectsOfBuyerInput(DecodeOwners[i], encoded_buyer_inputs[i]) :
               i \in DOMAIN encoded_buyer_inputs}

\* the decoding has ended, one way or the other
DecodingEnded == decoder.pc \in {"Crashed", "Done"}

\* C20: with fail_fast false, decoding runs to its end whatever defects the
\* input has, the error accumulator then holds exactly one error per defect of
\* the input, and the message for the client is the accumulated errors joined
\* by ';'
C20_AllDefectsAccumulated ==
    (DecodingEnded /\ ~decoder.fail_fast) =>
        /\ decoder.pc = "Done"
        /\ Range(decoder.error_accumulator.errors)
               = DefectsOfBuyerInputs(decoder.encoded_buyer_inputs)
        /\ decoder.message
               = StrJoin(decoder.error_accumulator.errors, kErrorDelimiter)


(* ---------------------------------------------------------------------- *)
\* C21: a ScoreAds request whose ad_bids is empty, or whose scoring_signals
\* is empty, is rejected with INVALID_ARGUMENT, and no scoreAd dispatch is
\* issued for it: at no moment of the RPC has a batch been dispatched, and
\* once the RPC is finished its status is INVALID_ARGUMENT with the text
\* of the missing part.
C21_EmptyRequestRejected ==
    (score_ads.raw_request_.ad_bids = <<>>
        \/ score_ads.raw_request_.scoring_signals = <<>>)
    => /\ score_ads.dispatches = 0
       /\ score_ads.pc # "Dispatching"
       /\ score_ads.pc = "Done"
          => /\ score_ads.status.code = "INVALID_ARGUMENT"
             /\ score_ads.status.message \in
                    {kNoAdsToScore, kNoTrustedScoringSignals}

\* ads but no scoring signals: rejected, nothing dispatched
C21_Witness ==
    /\ score_ads.raw_request_.ad_bids # <<>>
    /\ score_ads.raw_request_.scoring_signals = <<>>
    /\ score_ads.pc = "Done"
    /\ score_ads.status =
           [code |-> "INVALID_ARGUMENT", message |-> kNoTrustedScoringSignals]
    /\ score_ads.dispatches = 0


(* ---------------------------------------------------------------------- *)
\* C22: whatever SellerRejectionReason value reaches the placeholder data
\* (an enumerator, a number that names none, or the default when the
\* interest group has no entry), the text put in place of ${rejectReason}
\* in the debug URL is one of the 8 strings of the vocabulary.
C22_RejectReasonInVocabulary ==
    debug_report.pc = "Sent"
    => \A i \in DOMAIN debug_report.url :
           debug_report.url[i] = "${rejectReason}"
           => debug_report.http_request.url[i] \in
                  {"not-available", "invalid-bid", "bid-below-auction-floor",
                   "pending-approval-by-exchange", "disapproved-by-exchange",
                   "blocked-by-publisher", "language-exclusions",
                   "category-exclusions"}

\* a reason outside the enumerators is reported as not-available
C22_Witness ==
    /\ debug_report.pc = "Sent"
    /\ debug_report.placeholder_data.rejection_reason = "UNRECOGNIZED"
    /\ \E i \in DOMAIN debug_report.url :
           /\ debug_report.url[i] = "${rejectReason}"
           /\ debug_report.http_request.url[i] = "not-available"


(* ---------------------------------------------------------------------- *)
\* C23: the deadlines nest top-down: the deadline of the SFE call is at
\* least the timeout of the GetBids call, which is at least the timeout the
\* BFE gives GenerateBids, which is at least the dispatcher timeout, also
\* when auction_config.buyer_timeout_ms replaces the configured timeout.
\* The code takes each of them from its own flag or from the request and
\* compares none with another.
C23_DeadlinesNest ==
    /\ timeouts.pc \in {"GetBids", "GenerateBids", "Dispatched"}
       => timeouts.config.client_deadline_ms >= timeouts.get_bids_timeout
    /\ timeouts.pc \in {"GenerateBids", "Dispatched"}
       => timeouts.get_bids_timeout >= timeouts.generate_bids_timeout
    /\ timeouts.pc = "Dispatched"
       => timeouts.generate_bids_timeout >= timeouts.dispatch_timeout


(* ---------------------------------------------------------------------- *)
\* entry i of buyer_list has reported: the loop of Execute has handled it
\* and it was skipped, its call could not be started, or its callback ran
EntryReported(i) ==
    LET buyer == request.buyer_list[i]
    IN  /\ fetch_idx > i
        /\ \/ buyer \notin DOMAIN buyer_inputs_
           \/ bfe[buyer].call \in {"no_client", "execute_failed", "delivered"}

\* C24: in whatever order the buyers' callbacks run, OnAllBidsDone is called
\* only after every entry of buyer_list has reported one of Success,
\* EmptyResponse, Error or Skipped: from the call on, every entry has
\* reported and the four counters add up to the length of buyer_list.
C24_CollatedAfterAllReported ==
    env.all_bids_done > 0 =>
        /\ \A i \in DOMAIN request.buyer_list : EntryReported(i)
        /\ env.reports_at_collation = Len(request.buyer_list)
        /\ bid_stats_.successful + bid_stats_.empty + bid_stats_.error
               + bid_stats_.skipped = Len(request.buyer_list)

\* two buyers, the callback of the second ran before that of the first
C24_Witness ==
    /\ env.all_bids_done = 1
    /\ request.buyer_list = <<"a", "b">>
    /\ bfe["a"].call = "delivered" /\ bfe["b"].call = "delivered"
    /\ Len(shared_buyer_bids_map_) = 2
    /\ shared_buyer_bids_map_[1].buyer = "b"


(* ---------------------------------------------------------------------- *)
\* the fan-out has nothing left to do: the loop is over, no call is in flight
\* and no thread is inside BidCompleted
FanOutQuiescent ==
    /\ fan_out.idx > Len(fan_out.buyer_list)
    /\ \A i \in DOMAIN fan_out.call : fan_out.call[i] # "inflight"
    /\ \A t \in DOMAIN fan_out.thread : fan_out.thread[t].pc \in {"Idle", "Done"}

\* C25: once the fan-out starts, each entry of buyer_list causes exactly one
\* BidCompleted report, also when ExecuteInternal returns a non-OK status
\* and when buyer_list names a buyer twice: no entry is ever counted twice,
\* the pending count never goes below zero, OnAllBidsDone never runs twice
\* and runs only with every entry counted, and when nothing is left to run
\* every entry has been counted once and OnAllBidsDone has run once.
C25_OneReportPerEntry ==
    /\ \A i \in DOMAIN fan_out.reports : fan_out.reports[i] <= 1
    /\ fan_out.pending >= 0
    /\ fan_out.all_bids_done <= 1
    /\ fan_out.all_bids_done = 1 =>
           /\ fan_out.pending = 0
           /\ \A i \in DOMAIN fan_out.reports : fan_out.reports[i] = 1
    /\ FanOutQuiescent =>
           /\ \A i \in DOMAIN fan_out.reports : fan_out.reports[i] = 1
           /\ fan_out.all_bids_done = 1

\* the same buyer twice: the first call completes, the second cannot be started
C25_Witness ==
    /\ FanOutQuiescent
    /\ fan_out.buyer_list = <<"a", "a">>
    /\ fan_out.call = <<"delivered", "not_started">>
    /\ fan_out.reports = <<1, 1>>
    /\ fan_out.all_bids_done = 1

\* thread t is between taking and releasing the lock
InCriticalSection(t) ==
    fan_out.thread[t].pc \in {"Held", "Counting", "Collating", "Unlock"}

\* C26: insertions into the shared buyer-bids map are mutually exclusive,
\* each made by the thread that holds the collation lock, and the map is
\* not read (by OnAllBidsDone, the scoring-signals request,
\* CreateScoreAdsRequest, GetBiddingGroups or debug reporting) before every
\* buyer callback has completed.
C26_MapGuardedByLock ==
    /\ \A t1, t2 \in DOMAIN fan_out.thread :
           (InCriticalSection(t1) /\ InCriticalSection(t2)) => t1 = t2
    /\ \A t \in DOMAIN fan_out.thread :
           InCriticalSection(t) => fan_out.mu_ = t
    /\ fan_out.early_reads = 0
    /\ fan_out.reads > 0 => fan_out.all_bids_done = 1

\* one callback holds the lock while the other waits for it, and later all
\* five reads of the map have happened
C26_Witness ==
    /\ fan_out.reads = 5
    /\ fan_out.shared_buyer_bids_map_ = {"a", "b"}
    /\ fan_out.reader = "Done"


(* ---------------------------------------------------------------------- *)
\* C27: Finish is called at most once per SelectAd RPC, whichever path ends
\* it (decryption failure, validation errors, cancellation, fan-out failure,
\* ScoreAds start failure, ScoreAds callback, response-encryption failure),
\* and the RPC is finished exactly when Finish has been called.
C27_FinishAtMostOnce ==
    /\ env.finishes <= 1
    /\ Done <=> env.finishes = 1

\* ScoreAds completed and the response could not be encrypted: one Finish
C27_Witness ==
    /\ Done
    /\ scoring.response # <<>>
    /\ EncryptFailed
    /\ env.finishes = 1


(* ---------------------------------------------------------------------- *)
\* OnScoreAdsDone returned without a call of Finish: the response could not
\* be built and the error handler was not run
ReturnedUnfinished == pc = "Returned" /\ env.encode = "unreported"

\* C28: provided every registered downstream callback is eventually invoked,
\* every SelectAd RPC eventually reaches a call of Finish, on every path,
\* including the one on which building the non-encrypted response fails.
C28_EventuallyFinishes == <>Done


(* ---------------------------------------------------------------------- *)
\* the BFE reactor waits for a callback that was registered
Bfe_CallbackPending ==
    \/ get_bids.pc = "AwaitBiddingSignals" /\ get_bids.kv.state = "inflight"
    \/ get_bids.pc = "AwaitGenerateBids" /\ get_bids.bidding.state = "inflight"

\* C29: in the BFE reactor Finish is called exactly once per GetBids RPC on
\* every path (decryption failure, KV fetch failure, GenerateBids start
\* failure, GenerateBids callback failure, response-encryption failure and
\* success): never twice, once in every finished RPC, and an RPC that is not
\* finished has not started or waits for a callback that will finish it.
C29_BfeFinishExactlyOnce ==
    /\ get_bids.finishes <= 1
    /\ get_bids.pc = "Done" <=> get_bids.finishes = 1
    /\ get_bids.pc # "Done" => (get_bids.pc = "New" \/ Bfe_CallbackPending)

\* the GenerateBids callback succeeded and the response could not be sealed
C29_Witness ==
    /\ get_bids.pc = "Done"
    /\ get_bids.finishes = 1
    /\ get_bids.bidding.state = "done"
    /\ get_bids.get_bids_raw_response_ # <<>>
    /\ get_bids.status.code = "INTERNAL"


(* ---------------------------------------------------------------------- *)
\* a GetBids call was attempted for the buyer
GetBidsIssued(b) == bfe[b].call \in {"inflight", "delivered", "execute_failed"}

\* the fan-out has collated: every entry of buyer_list has reported
Collated == env.all_bids_done > 0 /\ bid_stats_.pending = 0

\* the response was encoded, or its encoding was attempted
EncodeAttempted == env.encode # "none"

\* C30: the SFE phases occur in the order of the state machine: no GetBids
\* call is issued before decryption and validation have succeeded, the
\* scoring-signals fetch is never started before Collated, ScoreAds is never
\* invoked before the scoring-signals fetch has completed, and the response
\* is never encoded before ScoreAds has completed, or was skipped on the
\* chaff branch (no bids after collation) and the error branches.
C30_PhaseOrder ==
    /\ \A b \in Buyers :
           GetBidsIssued(b) =>
               /\ Decrypted
               /\ error_accumulator_.CLIENT_VISIBLE = <<>>
               /\ error_accumulator_.AD_SERVER_VISIBLE = <<>>
    /\ (pc = "AwaitScoringSignals" \/ env.scoring_signals_fetch # "none") =>
           Collated /\ shared_buyer_bids_map_ # <<>>
    /\ scoring.calls > 0 => env.scoring_signals_fetch \in {"ok", "failed"}
    /\ pc = "AwaitScoreAds" => scoring.calls > 0
    /\ EncodeAttempted =>
           \/ scoring.calls > 0 /\ scoring.response # <<>>
           \/ /\ scoring.calls = 0
              /\ \/ Collated /\ shared_buyer_bids_map_ = <<>>
                 \/ /\ error_accumulator_.CLIENT_VISIBLE # <<>>
                    /\ \A b \in Buyers : ~GetBidsIssued(b)

\* every phase happened, in order, and the RPC finished with a response
C30_Witness ==
    /\ Done
    /\ \E b \in Buyers : bfe[b].call = "delivered"
    /\ Collated
    /\ env.scoring_signals_fetch = "ok"
    /\ scoring.response # <<>>
    /\ env.encode = "ok"
    /\ HasResult


(* ---------------------------------------------------------------------- *)
\* C31: in the BFE, GenerateBids is never issued before the bidding-signals
\* fetch of the same GetBids RPC has completed: whenever the call was made,
\* the fetch has been answered, and the request of the call carries the
\* signals of that answer.
C31_GenerateBidsAfterSignals ==
    get_bids.bidding.calls > 0 =>
        /\ get_bids.kv.state = "done"
        /\ get_bids.kv.response # <<>>
        /\ get_bids.kv.response[1].ok
        /\ get_bids.bidding.request[1].bidding_signals =
               get_bids.kv.response[1].bidding_signals

\* GenerateBids is in flight, after the fetch was answered
C31_Witness ==
    /\ get_bids.bidding.state = "inflight"
    /\ get_bids.kv.state = "done"
    /\ get_bids.pc = "AwaitGenerateBids"


(* ---------------------------------------------------------------------- *)
\* entry i of buyer_list names a buyer with a decoded BuyerInput and a stub
FanOutEligible(i) ==
    /\ fan_out.buyer_list[i] \in fan_out.buyer_inputs_
    /\ fan_out.buyer_list[i] \in fan_out.clients

\* C32: a GetBids call is made for a buyer exactly when it is an entry of
\* buyer_list, a decoded BuyerInput exists for it and a BFE stub exists for
\* it: a call is only ever made for such an entry, every such entry the loop
\* has passed has had its call made, and every other entry is counted as
\* SKIPPED without a call.
C32_GetBidsExactlyForEligible ==
    \A i \in DOMAIN fan_out.buyer_list :
        /\ fan_out.call[i] # "none" => FanOutEligible(i)
        /\ (FanOutEligible(i) /\ i < fan_out.idx) => fan_out.call[i] # "none"
        /\ fan_out.completed[i] = "SKIPPED" <=>
               (fan_out.reports[i] > 0 /\ ~FanOutEligible(i))
        /\ (FanOutQuiescent /\ ~FanOutEligible(i)) =>
               fan_out.completed[i] = "SKIPPED" /\ fan_out.call[i] = "none"

\* one buyer with BuyerInput and stub, one without BuyerInput, one call
C32_Witness ==
    /\ FanOutQuiescent
    /\ fan_out.buyer_list = <<"a", "b">>
    /\ fan_out.buyer_inputs_ = {"a"}
    /\ fan_out.clients = {"a", "b"}
    /\ fan_out.call = <<"delivered", "none">>
    /\ fan_out.completed[2] = "SKIPPED"


(* ---------------------------------------------------------------------- *)
\* the bids the buyers' GetBids responses delivered: <<buyer, index of the
\* interest group>> of every bid of every response that arrived with bids
DeliveredBids ==
    {<<b, i>> \in Buyers \X (1..MaxIGs) :
        /\ b \in BuyersWithBids
        /\ i \in DOMAIN bfe[b].ig_bid
        /\ bfe[b].ig_bid[i] # NoBid}

\* C33: during one SelectAd RPC ScoreAds is invoked at most once, and when it
\* is invoked its ad_bids holds every bid of every buyer recorded in the
\* buyer-bids map, each once: one ad per delivered bid, with the buyer as
\* owner, the interest group's name and the bid's value.
C33_ScoreAdsOnceWithAllBids ==
    /\ scoring.calls <= 1
    /\ scoring.calls = 1 =>
           /\ \A db \in DeliveredBids :
                  \E k \in DOMAIN scoring.request[1].ad_bids :
                      LET ad == scoring.request[1].ad_bids[k]
                      IN  /\ ad.interest_group_owner = db[1]
                          /\ ad.interest_group_name =
                                 buyer_inputs_[db[1]][db[2]].name
                          /\ ad.bid = bfe[db[1]].ig_bid[db[2]]
           /\ Len(scoring.request[1].ad_bids) = Cardinality(DeliveredBids)

\* two buyers delivered bids, three bids in all, one ScoreAds call
C33_Witness ==
    /\ scoring.calls = 1
    /\ Cardinality(DeliveredBids) >= 3
    /\ \A b \in Buyers : b \in BuyersWithBids


(* ---------------------------------------------------------------------- *)
\* a debug report completes in this step
DebugReportCompletes ==
    \E i \in DOMAIN lifetime.reports :
        lifetime.reports[i] = "inflight" /\ lifetime'.reports[i] # "inflight"

\* C34: the status and the response of a SelectAd RPC, and the point at
\* which it finishes, do not depend on whether or when a debug report
\* completes or fails: what the RPC ends with is a function of how the
\* response was built and sealed, the completion of a report changes neither
\* status nor response nor where the RPC is, and once the reports are started
\* the reactor goes on without any of them completing.
C34_ReportsOffCriticalPath ==
    /\ [](lifetime.pc \in {"Finished", "Returned", "Destroyed"} =>
              /\ lifetime.status = LifetimeResult(lifetime.enc).status
              /\ lifetime.response_ = LifetimeResult(lifetime.enc).response_)
    /\ [][DebugReportCompletes =>
              /\ lifetime'.status = lifetime.status
              /\ lifetime'.response_ = lifetime.response_
              /\ lifetime'.pc = lifetime.pc]_vars
    /\ (lifetime.pc = "Reported") ~> (lifetime.pc # "Reported")

\* the RPC finished OK while a report was in flight and another had failed
C34_Witness ==
    /\ lifetime.pc = "Finished"
    /\ lifetime.status.code = "OK"
    /\ lifetime.reports = <<"failed", "inflight">>

\* C37: after the reactor was destroyed in OnDone, no outstanding callback (a
\* debug-report completion, or a buyer, scoring-signals or ScoreAds callback
\* that fires after Finish) reads or writes state of that reactor.
C37_NoUseAfterDestroy == lifetime.use_after_free = 0


(* ---------------------------------------------------------------------- *)
\* the client-visible errors the reactor holds
ClientVisibleErrors == Range(error_accumulator_.CLIENT_VISIBLE)

\* no GetBids call was made and the loop of Execute never started
NoGetBidsIssued ==
    /\ \A b \in Buyers : bfe[b] = NoCall
    /\ pc # "FanOut"

\* C35 as stated: on every decrypted request an empty generation_id and an
\* empty publisher_name are each reported as a client-visible error, also
\* when decoding has already recorded other errors, and no GetBids call is
\* issued for such a request
C35_Original ==
    Decrypted =>
        /\ request.generation_id = "" =>
               "kMissingGenerationId" \in ClientVisibleErrors
        /\ request.publisher_name = "" =>
               "kMissingPublisherName" \in ClientVisibleErrors
        /\ (request.generation_id = "" \/ request.publisher_name = "") =>
               NoGetBidsIssued

\* C35 (amended): on a decrypted request whose decoding recorded no
\* client-visible error and whose auction config has no ad-server-visible
\* error, generation_id and publisher_name are both checked and each empty
\* one is reported as a client-visible error (both when both are empty);
\* when decoding recorded an error or the config has an ad-server-visible
\* error the two fields are not checked and neither is reported; in every
\* case no GetBids call is issued for a request with one of them empty.
C35_BothCheckedUnlessEarlierErrors ==
    Decrypted =>
        /\ (request.decode_errors = <<>> /\ ~HasAdServerVisibleDefect) =>
               /\ request.generation_id = "" <=>
                      "kMissingGenerationId" \in ClientVisibleErrors
               /\ request.publisher_name = "" <=>
                      "kMissingPublisherName" \in ClientVisibleErrors
        /\ (request.decode_errors # <<>> \/ HasAdServerVisibleDefect) =>
               /\ "kMissingGenerationId" \notin ClientVisibleErrors
               /\ "kMissingPublisherName" \notin ClientVisibleErrors
        /\ (request.generation_id = "" \/ request.publisher_name = "") =>
               NoGetBidsIssued

\* both fields empty in a request that decoded cleanly: both reported
C35_Witness ==
    /\ Done /\ Decrypted
    /\ request.decode_errors = <<>>
    /\ request.generation_id = "" /\ request.publisher_name = ""
    /\ request.buyer_list # <<>>
    /\ {"kMissingGenerationId", "kMissingPublisherName"} \subseteq ClientVisibleErrors
    /\ NoGetBidsIssued


(* ---------------------------------------------------------------------- *)
\* the compressed BuyerInput of owner i cannot be decompressed or decoded
FailsToDecode(i) ==
    \/ ~decoder.encoded_buyer_inputs[i].gzip_ok
    \/ ~decoder.encoded_buyer_inputs[i].cbor_ok

\* the error the decoder has for such a BuyerInput
DecodeErrorOf(i) ==
    IF ~decoder.encoded_buyer_inputs[i].gzip_ok
    THEN kMalformedCompressedIgError(DecodeOwners[i])
    ELSE kInvalidBuyerInputCborError(DecodeOwners[i])

RecordedAtMostOnce(r) ==
    /\ r.url_writes <= 1
    /\ r.beacon_writes <= 1
    /\ r.url_writes = (IF r.send_calls > 0 THEN 1 ELSE 0)
    /\ r.beacon_writes = (IF r.beacon_calls > 0 THEN 1 ELSE 0)
    /\ r.throws = (r.send_calls - r.url_writes)
                      + (r.beacon_calls - r.beacon_writes)
    /\ r.throws <= 1

\* C38: within one execution of the reporting entry function a second call
\* of sendReportTo throws and a second call of registerAdBeacon throws, so
\* at most one report URL and at most one beacon map are recorded, for the
\* seller's reportResult and for the buyer's reportWin wrapper alike; the
\* error ends reportResult and with it the execution, and ends reportWin.
C38_SecondCallThrows ==
    /\ RecordedAtMostOnce(js_report.ps_report_result_response)
    /\ RecordedAtMostOnce(js_report.ps_report_win_response)
    /\ js_report.ps_report_result_response.throws > 0 <=> js_report.pc = "Thrown"
    /\ js_report.ps_report_win_response.throws > 0 => js_report.pc = "Returned"

\* reportResult reported once; reportWin called sendReportTo twice, the
\* second call threw and the first URL stayed
C38_Witness ==
    /\ js_report.pc = "Returned"
    /\ js_report.ps_report_result_response.url = "u1"
    /\ js_report.ps_report_win_response.send_calls = 2
    /\ js_report.ps_report_win_response.throws = 1
    /\ js_report.ps_report_win_response.url = "u2"
    /\ js_report.ps_report_win_response.beacon_writes = 1


(* ---------------------------------------------------------------------- *)
\* C39: for a BROWSER request, the join_count and recency copied into a
\* bid's AdWithBidMetadata are those of the interest group, in the bidding
\* buyer's BuyerInput, whose name equals the bid's interest_group_name.
C39_SignalsOfNamedGroup ==
    (ad_metadata.pc = "Built" /\ ad_metadata.client_type = "BROWSER") =>
        \A i \in DOMAIN ad_metadata.interest_groups :
            LET interest_group == ad_metadata.interest_groups[i]
            IN  interest_group.name = ad_metadata.input.interest_group_name =>
                    /\ ad_metadata.result.join_count = interest_group.join_count
                    /\ ad_metadata.result.recency = interest_group.recency


(* ---------------------------------------------------------------------- *)
\* the entries of the winning AdScore's map that have at least one value
OtherBidOwners ==
    LET map == post_auction.winning_ad_score.ig_owner_highest_scoring_other_bids_map
    IN  {o \in DOMAIN map : Len(map[o]) > 0}

\* C40: for every winning AdScore, the made_highest_scoring_other_bid
\* placeholder of an interest group is true only if the AdScore carries a
\* highest-scoring-other-bid entry with at least one value and the interest
\* group's owner equals that entry's owner; when the AdScore carries no
\* such entry, has_highest_scoring_other_bid is false and the placeholder
\* is false for every interest group.
C40_OtherBidPlaceholder ==
    (post_auction.pc # "Start" /\ post_auction.winning_ad_score.has_value) =>
        /\ (/\ post_auction.pc = "Placeholder"
            /\ post_auction.placeholder_data.made_highest_scoring_other_bid)
               => post_auction.interest_group_owner \in OtherBidOwners
        /\ OtherBidOwners = {} =>
               ~post_auction.post_auction_signals.has_highest_scoring_other_bid


====
